---- MODULE Spec2Model ----
(***************************************************************************)
(* A model of paths2openscad.py: the containment tests (pointInPoly,       *)
(* polyInPoly), the extrusion attribute resolver                           *)
(* (object_merge_extrusion_values) and one run of OpenSCAD.effect          *)
(* (traversal, centering, convertPath per element, assembly).              *)
(*                                                                         *)
(* Coordinates are Python floats in the source.  The model uses integers   *)
(* and exact arithmetic: comparisons are translated as they stand, the one *)
(* division of the ray casting test is translated by cross-multiplying,    *)
(* and the halving of the drawing centre is exact because the run model    *)
(* draws even coordinates.                                                 *)
(***************************************************************************)
EXTENDS Integers, Sequences, FiniteSets, TLC

VARIABLES
    geo,        \* inputs and result of one containment test (SpecPoint, SpecPoly)
    doc,        \* the drawing: a sequence of nodes in document order
    options,    \* self.options: parsedesc, force_line, scadview, scad2stl, stlpost
    res,        \* the extrusion record resolved for one element (SpecAttr)
    pc,         \* the position of OpenSCAD.effect in one run (Spec)
    next,       \* recursivelyTraverseSvg: the node the traversal handles next
    entered,    \* recursivelyTraverseSvg: group recursed into -> the visibility passed down
    paths,      \* self.paths: node -> list of <<vertices, bounding box>>
    xmin, xmax, ymin, ymax,     \* self.xmin, ...: the bounding box of the drawing
    cx, cy,     \* self.cx, self.cy: the centre all points are moved by
    centered,   \* how many times effect has computed the centre
    f,          \* self.f: the output file, state and the writes made to it
    call_list, call_list_neg,   \* self.call_list, self.call_list_neg
    pathid,     \* self.pathid
    todo,       \* the keys of self.paths the loop of effect has not reached yet
    errormsg,   \* the messages given to inkex.errormsg
    warnings,   \* the keys of self.warnings
    launched    \* the commands effect has started with subprocess.Popen

runVars == <<pc, next, entered, paths, xmin, xmax, ymin, ymax, cx, cy, centered,
             f, call_list, call_list_neg, pathid, todo, errormsg, warnings, launched>>
vars == <<geo, doc, options, res, runVars>>

(***************************************************************************)
(* Bounds                                                                  *)
(***************************************************************************)
PtGridMax == 2      \* SpecPoint: coordinates are 0..PtGridMax
PtMaxVerts == 3     \* SpecPoint: polygons have 1..PtMaxVerts vertices
PairGridMax == 2    \* SpecPoly: coordinates are 0..PairGridMax
PairMaxTotal == 4   \* SpecPoly: the two subpaths have at most PairMaxTotal vertices together
MaxGroups == 2      \* SpecAttr: an element has at most MaxGroups enclosing groups
MaxNodes == 2       \* Spec: the drawing has 1..MaxNodes nodes
MaxSubs == 3        \* SpecNest: the path element has 1..MaxSubs subpaths

Huge == 1000        \* stands for 1.0E70, the start value of the drawing's bounding box
DefaultCenter == 50 \* float(DEFAULT_WIDTH) / 2.0

None == <<>>        \* Python None for an optional list argument

Min(a, b) == IF a < b THEN a ELSE b
Max(a, b) == IF a > b THEN a ELSE b

(***************************************************************************)
(* pointInBBox, bboxInBBox                                                 *)
(***************************************************************************)
PointInBBox(pt, bbox) ==
    IF (pt[1] < bbox[1]) \/ (pt[1] > bbox[2]) \/ (pt[2] < bbox[3]) \/ (pt[2] > bbox[4])
    THEN FALSE
    ELSE TRUE

BboxInBBox(bbox1, bbox2) ==
    IF (bbox1[1] < bbox2[1]) \/ (bbox1[2] > bbox2[2])
       \/ (bbox1[3] < bbox2[3]) \/ (bbox1[4] > bbox2[4])
    THEN FALSE
    ELSE TRUE

(***************************************************************************)
(* pointInPoly.  The result is "True", "False", or "IndexError" when the   *)
(* function reads poly[1] of a polygon that has a single vertex.           *)
(***************************************************************************)
\* The edge the horizontal-edge loop looks at in iteration i (1-based):
\* poly[0],poly[1] in the first iteration, poly[i-1],poly[i] afterwards.
HorizEdgeEnds(poly, i) ==
    IF i = 1 THEN <<poly[1], poly[2]>> ELSE <<poly[i - 1], poly[i]>>

OnHorizontalEdge(p, poly) ==
    \E i \in 1..Len(poly) :
        LET p1 == HorizEdgeEnds(poly, i)[1]
            p2 == HorizEdgeEnds(poly, i)[2]
        IN  /\ p[2] = p1[2]
            /\ p1[2] = p2[2]
            /\ p[1] > Min(p1[1], p2[1])
            /\ p[1] < Max(p1[1], p2[1])

\* x <= p1_x + (y - p1_y) * (p2_x - p1_x) / (p2_y - p1_y), for p1_y # p2_y
LeftOfIntersect(p, p1, p2) ==
    LET d == p2[2] - p1[2]
        n == (p[2] - p1[2]) * (p2[1] - p1[1])
    IN  IF d > 0 THEN (p[1] - p1[1]) * d <= n
                 ELSE (p[1] - p1[1]) * d >= n

\* Does the edge p1 -> p2 flip "inside" for the point p?
RayToggles(p, p1, p2) ==
    IF p[2] > Min(p1[2], p2[2])
    THEN IF p[2] <= Max(p1[2], p2[2])
         THEN IF p[1] <= Max(p1[1], p2[1])
              THEN IF p1[2] # p2[2]
                   THEN LeftOfIntersect(p, p1, p2)
                   ELSE TRUE
              ELSE FALSE
         ELSE FALSE
    ELSE FALSE

\* The loop "for i in range(n + 1)": iteration i (0-based) looks at the edge
\* from the previous p2 (poly[0] before the first iteration) to poly[i % n].
RECURSIVE RayCast(_, _, _, _)
RayCast(p, poly, i, inside) ==
    LET n  == Len(poly)
        p1 == IF i = 0 THEN poly[1] ELSE poly[((i - 1) % n) + 1]
        p2 == poly[(i % n) + 1]
    IN  IF i > n THEN inside
        ELSE RayCast(p, poly, i + 1,
                     IF RayToggles(p, p1, p2) THEN ~inside ELSE inside)

\* Mutant: the "p in poly" vertex test is missing.
PointInPoly_NoVertexTest(p, poly, bbox) ==
    IF bbox # None /\ ~PointInBBox(p, bbox) THEN "False"
    ELSE IF Len(poly) < 2 THEN "IndexError"
    ELSE IF OnHorizontalEdge(p, poly) THEN "True"
    ELSE IF RayCast(p, poly, 0, FALSE) THEN "True"
    ELSE "False"

PointInPoly(p, poly, bbox) ==
    IF bbox # None /\ ~PointInBBox(p, bbox) THEN "False"
    ELSE IF \E k \in 1..Len(poly) : poly[k] = p THEN "True"
    ELSE IF Len(poly) < 2 THEN "IndexError"
    ELSE IF OnHorizontalEdge(p, poly) THEN "True"
    ELSE IF RayCast(p, poly, 0, FALSE) THEN "True"
    ELSE "False"

(***************************************************************************)
(* polyInPoly: the bounding box rejection, then every vertex of poly1 in   *)
(* order; the first vertex that is not inside decides.                     *)
(***************************************************************************)
RECURSIVE AllVerticesIn(_, _, _, _)
AllVerticesIn(poly1, k, poly2, bbox2) ==
    IF k > Len(poly1) THEN "True"
    ELSE LET r == PointInPoly(poly1[k], poly2, bbox2)
         IN  IF r = "True" THEN AllVerticesIn(poly1, k + 1, poly2, bbox2)
             ELSE r

\* Mutant: bounding box containment is taken as sufficient.
PolyInPoly_BBoxSufficient(poly1, bbox1, poly2, bbox2) ==
    IF bbox1 # None /\ bbox2 # None /\ BboxInBBox(bbox1, bbox2) THEN "True"
    ELSE AllVerticesIn(poly1, 1, poly2, bbox2)

PolyInPoly(poly1, bbox1, poly2, bbox2) ==
    IF bbox1 # None /\ bbox2 # None /\ ~BboxInBBox(bbox1, bbox2) THEN "False"
    ELSE AllVerticesIn(poly1, 1, poly2, bbox2)

(***************************************************************************)
(* The bounding box getPathVertices caches with a subpath: it starts at    *)
(* the first vertex and is widened by the if/elif chain per later vertex.  *)
(***************************************************************************)
RECURSIVE TrackBBox(_, _, _)
TrackBBox(verts, k, bb) ==
    IF k > Len(verts) THEN bb
    ELSE LET pt == verts[k]
             bx == IF pt[1] < bb[1] THEN <<pt[1], bb[2]>>
                   ELSE IF pt[1] > bb[2] THEN <<bb[1], pt[1]>>
                   ELSE <<bb[1], bb[2]>>
             by == IF pt[2] < bb[3] THEN <<pt[2], bb[4]>>
                   ELSE IF pt[2] > bb[4] THEN <<bb[3], pt[2]>>
                   ELSE <<bb[3], bb[4]>>
         IN  TrackBBox(verts, k + 1, <<bx[1], bx[2], by[1], by[2]>>)

SubpathBBox(verts) ==
    TrackBBox(verts, 2, <<verts[1][1], verts[1][1], verts[1][2], verts[1][2]>>)

(***************************************************************************)
(* Text.  A Python string is a sequence of one-character strings.          *)
(***************************************************************************)
Digits == {"0", "1", "2", "3", "4", "5", "6", "7", "8", "9"}

\* The index after the longest run of characters of class C that starts at i.
RECURSIVE Span(_, _, _)
Span(s, i, C) ==
    IF i <= Len(s) /\ s[i] \in C THEN Span(s, i + 1, C) ELSE i

Slice(s, i, j) == [k \in 1..(j - i) |-> s[i + k - 1]]      \* s[i], ..., s[j-1]

\* str.replace("_", ".")
ReplaceUnderscore(s) == [k \in 1..Len(s) |-> IF s[k] = "_" THEN "." ELSE s[k]]

\* The index after \d+(?:<seps>\d+)? matched greedily from i, 0 when there is
\* no digit at i.
NumberEnd(s, i, seps) ==
    LET d1 == Span(s, i, Digits)
        d2 == Span(s, d1 + 1, Digits)
    IN  IF d1 = i THEN 0
        ELSE IF d1 <= Len(s) /\ s[d1] \in seps /\ d2 > d1 + 1 THEN d2
        ELSE d1

(***************************************************************************)
(* RE_AUTO_HEIGHT_ID = .*?_+([aA]?\d+(?:[_\.]\d+)?)_*mm$                   *)
(* IdHeightAt is the group captured when "_+" starts at index k, <<>> when *)
(* the rest of the string does not match there.                            *)
(***************************************************************************)
EndsWithMm(s, t) == t + 1 = Len(s) /\ s[t] = "m" /\ s[t + 1] = "m"

IdHeightAt(s, k) ==
    LET u  == Span(s, k, {"_"})
        a  == IF u <= Len(s) /\ s[u] \in {"a", "A"} THEN u + 1 ELSE u
        d1 == Span(s, a, Digits)
        e  == NumberEnd(s, a, {"_", "."})
    IN  IF u = k \/ d1 = a THEN <<>>
        ELSE IF EndsWithMm(s, Span(s, e, {"_"})) THEN Slice(s, u, e)
        ELSE IF EndsWithMm(s, Span(s, d1, {"_"})) THEN Slice(s, u, d1)
        ELSE <<>>

\* RE_AUTO_HEIGHT_ID.findall(rawid): ".*?" is lazy, so the match with the
\* shortest prefix is the one found, and it runs to the end of the string.
IdHeights(rawid) ==
    LET starts == {k \in 1..Len(rawid) : IdHeightAt(rawid, k) # <<>>}
    IN  IF starts = {} THEN <<>>
        ELSE <<IdHeightAt(rawid, CHOOSE k \in starts : \A j \in starts : k <= j)>>

(***************************************************************************)
(* The description patterns, matched line by line (re.MULTILINE).  A line  *)
(* of a description is [key, val, unit] for the text "<key>: <val><unit>". *)
(*   RE_AUTO_HEIGHT_DESC = ^(?:ht|[Hh]eight):\s*([aA]?\d+(?:\.\d+)?) ?mm$  *)
(*   RE_AUTO_SCALE_DESC  = ^(?:sc|[Ss]cale):\s*(\d+(?:\.\d+)?              *)
(*                                   (?: ?, ?\d+(?:\.\d+)?)?) ?%$          *)
(*   RE_AUTO_RAISE_DESC  = ^(?:[Rr]aise|[Oo]ffset):\s*(\d+(?:\.\d+)?) ?mm$ *)
(***************************************************************************)
IsHeightValue(v) ==
    LET a == IF Len(v) > 0 /\ v[1] \in {"a", "A"} THEN 2 ELSE 1
    IN  NumberEnd(v, a, {"."}) = Len(v) + 1

IsNumberValue(v) == NumberEnd(v, 1, {"."}) = Len(v) + 1

IsScaleValue(v) ==
    LET e  == NumberEnd(v, 1, {"."})
        c  == Span(v, e, {" "})
        n2 == Span(v, c + 1, {" "})
    IN  \/ e = Len(v) + 1
        \/ /\ e > 0 /\ c <= e + 1 /\ c <= Len(v) /\ v[c] = "," /\ n2 <= c + 2
           /\ NumberEnd(v, n2, {"."}) = Len(v) + 1

MatchesHeightDesc(line) ==
    line.key \in {"ht", "height", "Height"} /\ IsHeightValue(line.val) /\ line.unit = "mm"
MatchesScaleDesc(line) ==
    line.key \in {"sc", "scale", "Scale"} /\ IsScaleValue(line.val) /\ line.unit = "%"
MatchesRaiseDesc(line) ==
    line.key \in {"raise", "Raise", "offset", "Offset"} /\ IsNumberValue(line.val)
        /\ line.unit = "mm"

MatchesDesc(re, line) ==
    IF re = "RE_AUTO_HEIGHT_DESC" THEN MatchesHeightDesc(line)
    ELSE IF re = "RE_AUTO_SCALE_DESC" THEN MatchesScaleDesc(line)
    ELSE MatchesRaiseDesc(line)

\* re.findall(desc_node.text): the captured values of the matching lines.
RECURSIVE FindAll(_, _, _)
FindAll(re, text, k) ==
    IF k > Len(text) THEN <<>>
    ELSE IF MatchesDesc(re, text[k]) THEN <<text[k].val>> \o FindAll(re, text, k + 1)
    ELSE FindAll(re, text, k + 1)

Last(s) == s[Len(s)]                                   \* s[-1]

(***************************************************************************)
(* object_merge_extrusion_values.  A node is                               *)
(*   tag, parent (0: the parent is no node of the list, i.e. the root),    *)
(*   id (the id attribute, <<>> when absent), descs (the texts of the      *)
(*   description children found for DESC_TAGS, in that order), ...         *)
(***************************************************************************)
\* Mutant: a description without a scale line puts the scale back to 100.0.
MergeDesc_ResetsScale(extrusion, text) ==
    LET height == FindAll("RE_AUTO_HEIGHT_DESC", text, 1)
        zscale == FindAll("RE_AUTO_SCALE_DESC", text, 1)
        zraise == FindAll("RE_AUTO_RAISE_DESC", text, 1)
        e1 == IF height # <<>> THEN [extrusion EXCEPT !.height = Last(height)]
              ELSE extrusion
        e2 == IF zscale # <<>>
              THEN IF \E k \in 1..Len(Last(zscale)) : Last(zscale)[k] = ","
                   THEN [e1 EXCEPT !.scale = <<"[">> \o Last(zscale) \o <<"]">>]
                   ELSE [e1 EXCEPT !.scale = Last(zscale)]
              ELSE [e1 EXCEPT !.scale = <<"1", "0", "0", ".", "0">>]
    IN  IF zraise # <<>> THEN [e2 EXCEPT !.raise = Last(zraise)] ELSE e2

\* lines 688-702 for one description child
MergeDesc(extrusion, text) ==
    LET height == FindAll("RE_AUTO_HEIGHT_DESC", text, 1)
        zscale == FindAll("RE_AUTO_SCALE_DESC", text, 1)
        zraise == FindAll("RE_AUTO_RAISE_DESC", text, 1)
        e1 == IF height # <<>> THEN [extrusion EXCEPT !.height = Last(height)]
              ELSE extrusion
        e2 == IF zscale # <<>>
              THEN IF \E k \in 1..Len(Last(zscale)) : Last(zscale)[k] = ","
                   THEN [e1 EXCEPT !.scale = <<"[">> \o Last(zscale) \o <<"]">>]
                   ELSE [e1 EXCEPT !.scale = Last(zscale)]
              ELSE e1
    IN  IF zraise # <<>> THEN [e2 EXCEPT !.raise = Last(zraise)] ELSE e2

RECURSIVE MergeDescs(_, _, _)
MergeDescs(extrusion, descs, k) ==
    IF k > Len(descs) THEN extrusion
    ELSE MergeDescs(MergeDesc(extrusion, descs[k]), descs, k + 1)

\* lines 703-705
StripAntiMatter(extrusion) ==
    IF extrusion.height[1] \in {"a", "A"}
    THEN [extrusion EXCEPT !.neg = TRUE, !.height = Tail(extrusion.height)]
    ELSE extrusion

\* Mutant: the id is looked at after the descriptions, so that it overrides them.
MergeNode_IdAfterDesc(extrusion, node) ==
    LET height == IdHeights(node.id)
        e1 == MergeDescs(extrusion, node.descs, 1)
    IN  StripAntiMatter(IF height # <<>>
                        THEN [e1 EXCEPT !.height = ReplaceUnderscore(Last(height))]
                        ELSE e1)

\* lines 681-705: what one node does to the inherited record
MergeNode(extrusion, node) ==
    LET height == IdHeights(node.id)
        e1 == IF height # <<>>
              THEN [extrusion EXCEPT !.height = ReplaceUnderscore(Last(height))]
              ELSE extrusion
    IN  StripAntiMatter(MergeDescs(e1, node.descs, 1))

IsGroup(d, n) == n # 0 /\ d[n].tag = "g"

RECURSIVE ObjectMergeExtrusionValues(_, _, _)
ObjectMergeExtrusionValues(extrusion, d, n) ==
    MergeNode(IF IsGroup(d, d[n].parent)
              THEN ObjectMergeExtrusionValues(extrusion, d, d[n].parent)
              ELSE extrusion,
              d[n])

\* line 819
DefaultExtrusion ==
    [height |-> <<"h">>, raise |-> <<"0">>, scale |-> <<"1", "0", "0", ".", "0">>,
     neg |-> FALSE]

\* lines 819-821
ResolveExtrusion(d, n, opts) ==
    IF opts.parsedesc = "true"
    THEN ObjectMergeExtrusionValues(DefaultExtrusion, d, n)
    ELSE DefaultExtrusion

(***************************************************************************)
(* Values of the variables a specification does not use.                   *)
(***************************************************************************)
NoGeo == [op |-> "-", done |-> FALSE]
NoRes == [done |-> FALSE, node |-> 0, extrusion |-> DefaultExtrusion]
\* lines 361-424: the defaults of the options the model reads
DefaultOptions ==
    [parsedesc |-> "true", force_line |-> FALSE,
     scadview |-> "false", scad2stl |-> "false", stlpost |-> "false"]
NoDocument ==
    /\ doc = <<>>
    /\ options = DefaultOptions
    /\ res = NoRes

\* The fields OpenSCAD.__init__ sets, and the run at the position given.
NoFile == [state |-> "none", text |-> <<>>]
InitSelf(position) ==
    /\ pc = position
    /\ next = 1
    /\ entered = <<>>
    /\ paths = <<>>
    /\ xmin = Huge /\ xmax = -Huge
    /\ ymin = Huge /\ ymax = -Huge
    /\ cx = DefaultCenter /\ cy = DefaultCenter
    /\ centered = 0
    /\ f = NoFile
    /\ call_list = <<>> /\ call_list_neg = <<>>
    /\ pathid = 0
    /\ todo = {}
    /\ errormsg = <<>>
    /\ warnings = {}
    /\ launched = <<>>
NoRun == InitSelf("idle")

(***************************************************************************)
(* SpecPoint: pointInPoly applied to a point and a polygon of the grid,    *)
(* once without a bounding box and once with the polygon's own.            *)
(***************************************************************************)
PtCoord == 0..PtGridMax
PtPoints == PtCoord \X PtCoord
PtPolys == UNION {[1..n -> PtPoints] : n \in 1..PtMaxVerts}

InitPoint ==
    /\ geo \in [op : {"pointInPoly"}, p : PtPoints, poly : PtPolys,
                done : {FALSE}, nobox : {"-"}, box : {"-"}]
    /\ NoDocument
    /\ NoRun

CallPointInPoly ==
    /\ geo.op = "pointInPoly"
    /\ ~geo.done
    /\ geo' = [geo EXCEPT !.done = TRUE,
                          !.nobox = PointInPoly(geo.p, geo.poly, None),
                          !.box = PointInPoly(geo.p, geo.poly, SubpathBBox(geo.poly))]
    /\ UNCHANGED <<doc, options, res, runVars>>

NextPoint == CallPointInPoly

SpecPoint == InitPoint /\ [][NextPoint]_vars

(***************************************************************************)
(* SpecPoly: polyInPoly applied to two subpaths A and B of the grid in     *)
(* both directions, with the bounding boxes getPathVertices caches (as     *)
(* convertPath calls it) and without any.                                  *)
(***************************************************************************)
PairCoord == 0..PairGridMax
PairPoints == PairCoord \X PairCoord
PairPolys(n) == [1..n -> PairPoints]
InitPoly ==
    \E n \in 1..(PairMaxTotal - 1) : \E m \in 1..(PairMaxTotal - n) :
        \E a \in PairPolys(n) : \E b \in PairPolys(m) :
            /\ geo = [op |-> "polyInPoly", a |-> a, b |-> b, done |-> FALSE,
                      ab_box |-> "-", ba_box |-> "-", ab_nobox |-> "-"]
            /\ NoDocument
            /\ NoRun

CallPolyInPoly ==
    /\ geo.op = "polyInPoly"
    /\ ~geo.done
    /\ LET bba == SubpathBBox(geo.a)
           bbb == SubpathBBox(geo.b)
       IN  geo' = [geo EXCEPT !.done = TRUE,
                              !.ab_box = PolyInPoly(geo.a, bba, geo.b, bbb),
                              !.ba_box = PolyInPoly(geo.b, bbb, geo.a, bba),
                              !.ab_nobox = PolyInPoly(geo.a, None, geo.b, None)]
    /\ UNCHANGED <<doc, options, res, runVars>>

NextPoly == CallPolyInPoly

SpecPoly == InitPoly /\ [][NextPoly]_vars

(***************************************************************************)
(* SpecAttr: the extrusion record convertPath resolves for an element that *)
(* lies in 0..MaxGroups nested groups; every node of the chain draws its   *)
(* id and its description from the sets below.                             *)
(***************************************************************************)
\* The style attribute as getPathStyle splits it: the value per key, "" or <<>>
\* for a key the attribute does not have.
NoStyle == [fill |-> "", stroke |-> "", stroke_width |-> <<>>, display |-> ""]

Node(tag, parent, id, descs) ==
    [tag |-> tag, parent |-> parent, id |-> id, descs |-> descs,
     visibility |-> "", style |-> NoStyle, subs |-> <<>>, texts |-> <<>>,
     coords |-> <<>>, href |-> <<>>]

Line(key, val, unit) == [key |-> key, val |-> val, unit |-> unit]

Id_p_10_5_mm == <<"p", "_", "1", "0", "_", "5", "_", "m", "m">>
Id_q_a3mm == <<"q", "_", "a", "3", "m", "m">>
AttrIds == {<<>>, Id_p_10_5_mm, Id_q_a3mm}

\* "height: 7mm"; "ht: 2.5mm" followed by "Height: A7mm"; a line no pattern matches
AttrHeightLines ==
    {<<Line("note", <<"7">>, "")>>,
     <<Line("height", <<"7">>, "mm")>>,
     <<Line("ht", <<"2", ".", "5">>, "mm"), Line("Height", <<"A", "7">>, "mm")>>}
ScaleLine == Line("scale", <<"5", "0", ",", "6", "0">>, "%")
RaiseLine == Line("raise", <<"2">>, "mm")
AttrTexts ==
    AttrHeightLines
        \cup {<<ScaleLine>>, <<RaiseLine>>,
              <<ScaleLine, Line("height", <<"a", "4">>, "mm"), RaiseLine>>}
AttrDescs == {<<>>} \cup {<<t>> : t \in AttrTexts}

InitAttr ==
    /\ \E k \in 0..MaxGroups :
         \E ids \in [1..(k + 1) -> AttrIds] : \E ds \in [1..(k + 1) -> AttrDescs] :
            doc = [i \in 1..(k + 1) |->
                      Node(IF i <= k THEN "g" ELSE "path", i - 1, ids[i], ds[i])]
    /\ options \in [parsedesc : {"true", "false"}, force_line : {FALSE},
                   scadview : {"false"}, scad2stl : {"false"}, stlpost : {"false"}]
    /\ res = NoRes
    /\ geo = NoGeo
    /\ NoRun

CallResolveExtrusion ==
    /\ pc = "idle"
    /\ ~res.done
    /\ doc # <<>>
    /\ res' = [done |-> TRUE, node |-> Len(doc),
               extrusion |-> ResolveExtrusion(doc, Len(doc), options)]
    /\ UNCHANGED <<geo, doc, options, runVars>>

NextAttr == CallResolveExtrusion

SpecAttr == InitAttr /\ [][NextAttr]_vars

(***************************************************************************)
(* One run of OpenSCAD.effect.                                             *)
(*                                                                         *)
(* Text helpers: str(int), the id sanitizer, parseLengthWithUnits and      *)
(* LengthWithUnit.                                                         *)
(***************************************************************************)
Letters ==
    {"a", "b", "c", "d", "e", "f", "g", "h", "i", "j", "k", "l", "m",
     "n", "o", "p", "q", "r", "s", "t", "u", "v", "w", "x", "y", "z",
     "A", "B", "C", "D", "E", "F", "G", "H", "I", "J", "K", "L", "M",
     "N", "O", "P", "Q", "R", "S", "T", "U", "V", "W", "X", "Y", "Z"}
IdChars == Letters \cup Digits \cup {"_"}

DigitChar(d) == <<"0", "1", "2", "3", "4", "5", "6", "7", "8", "9">>[d + 1]

\* str(n) for an int n >= 0
RECURSIVE NatToStr(_)
NatToStr(n) ==
    IF n < 10 THEN <<DigitChar(n)>>
    ELSE NatToStr(n \div 10) \o <<DigitChar(n % 10)>>

\* re.sub('[^A-Za-z0-9_]+', '', rawid)
RECURSIVE Sanitize(_)
Sanitize(rawid) ==
    IF rawid = <<>> THEN <<>>
    ELSE IF Head(rawid) \in IdChars THEN <<Head(rawid)>> \o Sanitize(Tail(rawid))
    ELSE Sanitize(Tail(rawid))

TwoLetterUnits ==
    {<<"p", "x">>, <<"p", "t">>, <<"p", "c">>, <<"m", "m">>, <<"c", "m">>,
     <<"i", "n">>, <<"f", "t">>}
NoLength == [ok |-> FALSE, v |-> <<>>, u |-> <<>>]

\* parseLengthWithUnits: the unit suffix is split off and float() is applied to
\* the rest (here: digits with an optional fraction); (None, None) otherwise.
ParseLengthWithUnits(str, default_unit) ==
    LET n == Len(str)
        two == IF n >= 2 THEN <<str[n - 1], str[n]>> ELSE str
        one == IF n >= 1 THEN <<str[n]>> ELSE str
        u == IF two \in TwoLetterUnits THEN two
             ELSE IF one \in {<<"m">>, <<"%">>} THEN one
             ELSE default_unit
        t == IF two \in TwoLetterUnits THEN SubSeq(str, 1, n - 2)
             ELSE IF one \in {<<"m">>, <<"%">>} THEN SubSeq(str, 1, n - 1)
             ELSE str
    IN  IF IsNumberValue(t) THEN [ok |-> TRUE, v |-> t, u |-> u] ELSE NoLength

\* LengthWithUnit: None for an unparsable value and for an unsupported unit,
\* else the value in px; the model keeps the value with the unit it is
\* converted from.
LengthWithUnit(strn, default_unit) ==
    LET r == ParseLengthWithUnits(strn, default_unit)
    IN  IF ~r.ok THEN NoLength
        ELSE IF r.u \in TwoLetterUnits \cup {<<"m">>} THEN r
        ELSE NoLength

\* style.get('stroke-width', '1'), style.get('fill', '#FFF'), style.get('stroke', 'none')
StrokeWidthOf(style) == IF style.stroke_width = <<>> THEN <<"1">> ELSE style.stroke_width
FillOf(style) == IF style.fill = "" THEN "#FFF" ELSE style.fill
StrokeOf(style) == IF style.stroke = "" THEN "none" ELSE style.stroke

\* Mutant: the style is not looked at.
IsDisplayNone_Never(style) == FALSE

\* s == 'display:none' for the whole style attribute
IsDisplayNone(style) == style = [NoStyle EXCEPT !.display = "none"]

(***************************************************************************)
(* getPathVertices for path data of moves and lines: one [vertices, bbox]  *)
(* per subpath, and the bounding box of the drawing widened by each.       *)
(***************************************************************************)
\* lines 640-647
WidenDrawingBBox(bb, sp) ==
    <<IF sp[1] < bb[1] THEN sp[1] ELSE bb[1],
      IF sp[2] > bb[2] THEN sp[2] ELSE bb[2],
      IF sp[3] < bb[3] THEN sp[3] ELSE bb[3],
      IF sp[4] > bb[4] THEN sp[4] ELSE bb[4]>>

\* lines 604-605 and 650-651: the subpath gathered before is put on the
\* list with the bounding box tracked for it
KeepPrior(acc) ==
    IF Len(acc.subpath_vertices) # 0
    THEN Append(acc.subpath_list, <<acc.subpath_vertices, acc.sp_bbox>>)
    ELSE acc.subpath_list

\* Mutant: the bounding box of a subpath starts from the one of the subpath
\* before instead of its own first point.
RECURSIVE GetPathVertices_BBoxNotReset(_, _, _)
GetPathVertices_BBoxNotReset(subs, k, acc) ==
    IF k > Len(subs) THEN [acc EXCEPT !.subpath_list = KeepPrior(acc)]
    ELSE LET sp_bbox == IF acc.sp_bbox = <<>> THEN SubpathBBox(subs[k])
                        ELSE TrackBBox(subs[k], 1, acc.sp_bbox)
         IN  GetPathVertices_BBoxNotReset(subs, k + 1,
                 [subpath_list |-> KeepPrior(acc),
                  subpath_vertices |-> subs[k],
                  sp_bbox |-> sp_bbox,
                  bbox |-> WidenDrawingBBox(acc.bbox, sp_bbox)])

\* lines 599-651: the loop over the subpaths from the k-th on and the final
\* append; acc holds subpath_list, the pending subpath_vertices with its
\* box (sp_xmin, sp_xmax, sp_ymin, sp_ymax) and the box of the drawing
RECURSIVE GetPathVertices(_, _, _)
GetPathVertices(subs, k, acc) ==
    IF k > Len(subs) THEN [acc EXCEPT !.subpath_list = KeepPrior(acc)]
    ELSE LET sp_bbox == SubpathBBox(subs[k])
         IN  GetPathVertices(subs, k + 1,
                 [subpath_list |-> KeepPrior(acc),
                  subpath_vertices |-> subs[k],
                  sp_bbox |-> sp_bbox,
                  bbox |-> WidenDrawingBBox(acc.bbox, sp_bbox)])

(***************************************************************************)
(* recursivelyTraverseSvg.  The nodes of doc are in document order, so the *)
(* recursion visits them by rising index and leaves out the subtrees of    *)
(* the nodes it does not recurse into.                                     *)
(***************************************************************************)
\* lines 890-892
Visibility(node, parent_visibility) ==
    LET v == IF node.visibility = "" THEN parent_visibility ELSE node.visibility
    IN  IF v = "inherit" THEN parent_visibility ELSE v

ParentVisibility(d, e, n) == IF d[n].parent = 0 THEN "visible" ELSE e[d[n].parent]

\* lines 893-898
IsIgnored(d, e, n) ==
    \/ Visibility(d[n], ParentVisibility(d, e, n)) \in {"hidden", "collapse"}
    \/ IsDisplayNone(d[n].style)

\* The next node the recursion reaches after node i, Len(d) + 1 when none.
NextReached(d, e, i) ==
    LET later == {j \in (i + 1)..Len(d) : d[j].parent = 0 \/ d[j].parent \in DOMAIN e}
    IN  IF later = {} THEN Len(d) + 1
        ELSE CHOOSE j \in later : \A k \in later : j <= k

FunSet(fn, key, val) ==         \* the dict fn after fn[key] = val
    [k \in DOMAIN fn \cup {key} |-> IF k = key THEN val ELSE fn[k]]

\* The tags the if/elif chain of lines 904-1140 draws (the model draws
\* paths only) and the tags it passes over without a message.
DrawnTags == {"g", "use", "path", "rect", "line", "polyline", "polygon", "ellipse", "circle"}
PassedTags == {"pattern", "metadata", "defs", "desc", "namedview", "eggbot", "title",
               "radialGradient", "linearGradient", "style", "cursor", "color-profile"}

Warning(msg, n) == [msg |-> msg, node |-> n]

\* lines 1095-1104, 1109-1116 and 1150-1152: the messages for the node n
\* that cannot be drawn, and self.warnings after it
Unsupported(node, n, w) ==
    IF node.tag = "text"
    THEN [msgs |-> IF Len(node.texts) # 0
                   THEN <<Warning("text", n), Warning("unable to draw text", n)>>
                   ELSE <<>>,
          warnings |-> w]
    ELSE IF node.tag = "image"
    THEN [msgs |-> IF "image" \notin w
                   THEN <<Warning("unable to draw bitmap images", n)>> ELSE <<>>,
          warnings |-> w \cup {"image"}]
    ELSE IF node.tag \in DrawnTags \cup PassedTags
    THEN [msgs |-> <<>>, warnings |-> w]
    ELSE [msgs |-> <<Warning("unable to draw object", n)>>, warnings |-> w]

\* simplepath.parsePath and cubicsuperpath.CubicSuperPath for a path of
\* absolute moves and lines: every M starts a subpath, every L adds a point
RECURSIVE Subpaths(_, _, _)
Subpaths(a, k, acc) ==
    IF k > Len(a) THEN acc
    ELSE IF a[k].cmd = "M" THEN Subpaths(a, k + 1, Append(acc, <<a[k].params>>))
    ELSE Subpaths(a, k + 1, [acc EXCEPT ![Len(acc)] = Append(@, a[k].params)])

\* lines 984-993: the path made for <line x1 y1 x2 y2>, c = <<x1, y1, x2, y2>>;
\* none when "(not x1) or (not y1) or (not x2) or (not y2)"
LinePath(c) ==
    IF c[1] = 0 \/ c[2] = 0 \/ c[3] = 0 \/ c[4] = 0 THEN <<>>
    ELSE <<[cmd |-> "M", params |-> <<c[1], c[2]>>],
           [cmd |-> "L", params |-> <<c[3], c[4]>>]>>

\* lines 943-994: the subpaths given to getPathVertices for a path and for a
\* line, none when getPathVertices is not called
PathData(node) ==
    IF node.tag = "path" THEN node.subs
    ELSE IF node.tag = "line" THEN Subpaths(LinePath(node.coords), 1, <<>>)
    ELSE <<>>

TraverseNode ==
    /\ pc = "traverse"
    /\ next <= Len(doc)
    /\ LET node == doc[next]
           ignored == IsIgnored(doc, entered, next)
           e2 == IF ~ignored /\ node.tag = "g"
                 THEN FunSet(entered, next,
                             Visibility(node, ParentVisibility(doc, entered, next)))
                 ELSE entered
           g == GetPathVertices(PathData(node), 1,
                                [subpath_list |-> <<>>, subpath_vertices |-> <<>>,
                                 sp_bbox |-> <<>>, bbox |-> <<xmin, xmax, ymin, ymax>>])
       IN  /\ entered' = e2
           /\ next' = NextReached(doc, e2, next)
           /\ IF ~ignored /\ PathData(node) # <<>>
              THEN /\ paths' = FunSet(paths, next, g.subpath_list)
                   /\ xmin' = g.bbox[1] /\ xmax' = g.bbox[2]
                   /\ ymin' = g.bbox[3] /\ ymax' = g.bbox[4]
              ELSE UNCHANGED <<paths, xmin, xmax, ymin, ymax>>
           /\ errormsg' = IF ignored THEN errormsg
                          ELSE errormsg \o Unsupported(node, next, warnings).msgs
           /\ warnings' = IF ignored THEN warnings
                          ELSE Unsupported(node, next, warnings).warnings
    /\ UNCHANGED <<geo, doc, options, res, pc, cx, cy, centered, f,
                   call_list, call_list_neg, pathid, todo, launched>>

\* Mutant: the extent is not halved.
Center_NoHalving(lo, hi) == lo + (hi - lo)

\* lines 1195-1196
Center(lo, hi) == lo + (hi - lo) \div 2

\* Mutant: the centre is computed, and the run goes on, before the traversal
\* has reached every node.
ComputeCenter_Early ==
    /\ pc = "traverse"
    /\ cx' = Center(xmin, xmax)
    /\ cy' = Center(ymin, ymax)
    /\ centered' = centered + 1
    /\ pc' = "open"
    /\ UNCHANGED <<geo, doc, options, res, next, entered, paths, xmin, xmax, ymin, ymax,
                   f, call_list, call_list_neg, pathid, todo, errormsg, warnings, launched>>

ComputeCenter ==
    /\ pc = "traverse"
    /\ next > Len(doc)
    /\ cx' = Center(xmin, xmax)
    /\ cy' = Center(ymin, ymax)
    /\ centered' = centered + 1
    /\ pc' = "open"
    /\ UNCHANGED <<geo, doc, options, res, next, entered, paths, xmin, xmax, ymin, ymax,
                   f, call_list, call_list_neg, pathid, todo, errormsg, warnings, launched>>

(***************************************************************************)
(* convertPath.  A write to the output file is a record: what is written   *)
(* (k), the name parts the text is built from (id, prefix), the value      *)
(* written (data), and the element and subpath (1-based) it was built for. *)
(***************************************************************************)
W(k, node, id, sub, prefix, data) ==
    [k |-> k, node |-> node, id |-> id, sub |-> sub, prefix |-> prefix, data |-> data]
Plain(k) == W(k, 0, <<>>, 0, 0, <<>>)

\* lines 714-715
NoContainment(n) ==
    [contains |-> [i \in 1..n |-> <<>>], contained_by |-> [i \in 1..n |-> <<>>],
     error |-> FALSE]

\* Mutant: the reverse direction is tested with "if" in place of "elif".
RECURSIVE FindContainment_BothDirections(_, _, _, _)
FindContainment_BothDirections(path, i, j, c) ==
    IF i > Len(path) THEN c
    ELSE IF j > Len(path) THEN FindContainment_BothDirections(path, i + 1, i + 2, c)
    ELSE LET ji == PolyInPoly(path[j][1], path[j][2], path[i][1], path[i][2])
             ij == PolyInPoly(path[i][1], path[i][2], path[j][1], path[j][2])
             c1 == IF ji = "True"
                   THEN [c EXCEPT !.contains[i] = Append(@, j),
                                  !.contained_by[j] = Append(@, i)]
                   ELSE c
             c2 == IF ij = "True"
                   THEN [c1 EXCEPT !.contains[j] = Append(@, i),
                                   !.contained_by[i] = Append(@, j)]
                   ELSE c1
         IN  IF ji = "IndexError" \/ ij = "IndexError" THEN [c EXCEPT !.error = TRUE]
             ELSE FindContainment_BothDirections(path, i, j + 1, c2)

\* lines 717-728, from the pair (i, j) on; an exception of polyInPoly ends it
RECURSIVE FindContainment(_, _, _, _)
FindContainment(path, i, j, c) ==
    IF i > Len(path) THEN c
    ELSE IF j > Len(path) THEN FindContainment(path, i + 1, i + 2, c)
    ELSE LET ji == PolyInPoly(path[j][1], path[j][2], path[i][1], path[i][2])
             ij == PolyInPoly(path[i][1], path[i][2], path[j][1], path[j][2])
         IN  IF ji = "True"
             THEN FindContainment(path, i, j + 1,
                      [c EXCEPT !.contains[i] = Append(@, j),
                                !.contained_by[j] = Append(@, i)])
             ELSE IF ji = "IndexError" THEN [c EXCEPT !.error = TRUE]
             ELSE IF ij = "True"
             THEN FindContainment(path, i, j + 1,
                      [c EXCEPT !.contains[j] = Append(@, i),
                                !.contained_by[i] = Append(@, j)])
             ELSE IF ij = "IndexError" THEN [c EXCEPT !.error = TRUE]
             ELSE FindContainment(path, i, j + 1, c)

\* Mutant: the subpaths contained by another one are not skipped.
TopLevel_Always(c, i) == TRUE

\* lines 762 and 835: "if len(contained_by[i]) != 0: continue"
TopLevel(c, i) == Len(c.contained_by[i]) = 0

Half(v) == v \div 2                                     \* v * .5
Moved(verts, x, y) ==                                   \* point - (self.cx, self.cy)
    [k \in 1..Len(verts) |-> <<verts[k][1] - x, verts[k][2] - y>>]
Range(a, b) == [k \in 1..(b - a) |-> a + k - 1]         \* range(a, b)

\* Mutant: the running count of points is not advanced after a nested subpath.
RECURSIVE Nested_CountNotAdvanced(_, _, _, _, _, _)
Nested_CountNotAdvanced(path, js, k, acc, x, y) ==
    IF k > Len(js) THEN acc
    ELSE LET sub == path[js[k]][1]
         IN  Nested_CountNotAdvanced(path, js, k + 1,
                    [points |-> acc.points \o Moved(sub, x, y),
                     paths |-> Append(acc.paths, Range(acc.count, acc.count + Len(sub))),
                     count |-> acc.count],
                    x, y)

\* lines 795-802: the subpaths js[k], js[k+1], ... are folded into acc
RECURSIVE Nested(_, _, _, _, _, _)
Nested(path, js, k, acc, x, y) ==
    IF k > Len(js) THEN acc
    ELSE LET sub == path[js[k]][1]
         IN  Nested(path, js, k + 1,
                    [points |-> acc.points \o Moved(sub, x, y),
                     paths |-> Append(acc.paths, Range(acc.count, acc.count + Len(sub))),
                     count |-> acc.count + Len(sub)],
                    x, y)

\* lines 764-810: what is written for the top-level subpath i
Declaration(path, c, node, id, i, prefix, x, y) ==
    LET subpath == path[i][1]
        bbox == path[i][2]
        polycenter == W("center", node, id, i, prefix,
                        <<Half(bbox[1] + bbox[2]) - x, Half(bbox[3] + bbox[4]) - y>>)
        own == Moved(subpath, x, y)
        n == Nested(path, c.contains[i], 1,
                    [points |-> own, paths |-> <<Range(0, Len(subpath))>>,
                     count |-> Len(subpath)],
                    x, y)
    IN  IF Len(c.contains[i]) = 0
        THEN <<polycenter, W("points", node, id, i, prefix, own)>>
        ELSE <<polycenter, W("points", node, id, i, prefix, n.points),
               W("paths", node, id, i, prefix, n.paths)>>

\* lines 759-810
RECURSIVE Declarations(_, _, _, _, _, _, _, _)
Declarations(path, c, node, id, i, prefix, x, y) ==
    IF i > Len(path) THEN <<>>
    ELSE IF ~TopLevel(c, i) THEN Declarations(path, c, node, id, i + 1, prefix, x, y)
    ELSE Declaration(path, c, node, id, i, prefix, x, y)
             \o Declarations(path, c, node, id, i + 1, prefix + 1, x, y)

\* Mutant: the ordinal of a sub-block counts the skipped subpaths too.
RECURSIVE Blocks_CountsEvery(_, _, _, _, _, _, _)
Blocks_CountsEvery(path, c, node, id, i, prefix, solid) ==
    IF i > Len(path) THEN <<>>
    ELSE IF ~TopLevel(c, i)
    THEN Blocks_CountsEvery(path, c, node, id, i + 1, prefix + 1, solid)
    ELSE LET poly == IF solid
                     THEN IF Len(c.contains[i]) = 0 THEN "msg_linear_extrude"
                          ELSE "msg_linear_extrude_by_paths"
                     ELSE IF Len(c.contains[i]) = 0 THEN "msg_extrude_by_hull"
                          ELSE "msg_extrude_by_hull_and_paths"
         IN  <<W("block", node, id, i, prefix, poly)>>
                 \o Blocks_CountsEvery(path, c, node, id, i + 1, prefix + 1, solid)

\* lines 831-860: solid is "filled and not self.options.force_line"
RECURSIVE Blocks(_, _, _, _, _, _, _)
Blocks(path, c, node, id, i, prefix, solid) ==
    IF i > Len(path) THEN <<>>
    ELSE IF ~TopLevel(c, i) THEN Blocks(path, c, node, id, i + 1, prefix, solid)
    ELSE LET poly == IF solid
                     THEN IF Len(c.contains[i]) = 0 THEN "msg_linear_extrude"
                          ELSE "msg_linear_extrude_by_paths"
                     ELSE IF Len(c.contains[i]) = 0 THEN "msg_extrude_by_hull"
                          ELSE "msg_extrude_by_hull_and_paths"
         IN  <<W("block", node, id, i, prefix, poly)>>
                 \o Blocks(path, c, node, id, i + 1, prefix + 1, solid)

\* Mutant: the call of an anti-matter element is put on both lists.
AppendCall_Both(lists, call_item, neg) ==
    [call_list |-> Append(lists.call_list, call_item),
     call_list_neg |-> IF neg THEN Append(lists.call_list_neg, call_item)
                       ELSE lists.call_list_neg]

\* lines 826-829
AppendCall(lists, call_item, neg) ==
    [call_list |-> IF neg THEN lists.call_list
                   ELSE Append(lists.call_list, call_item),
     call_list_neg |-> IF neg THEN Append(lists.call_list_neg, call_item)
                       ELSE lists.call_list_neg]

\* Mutant: an element with fill:none and stroke:none is converted like any other.
ConvertOutcome_DrawsInvisible(d, key, path, c) ==
    IF Len(path) = 0 THEN "empty"
    ELSE IF c.error THEN "IndexError"
    ELSE IF ~LengthWithUnit(StrokeWidthOf(d[key].style), <<"m", "m">>).ok
    THEN "TypeError"
    ELSE "converted"

\* How convertPath ends for the element key.
ConvertOutcome(d, key, path, c) ==
    IF Len(path) = 0 THEN "empty"                                   \* line 709
    ELSE IF c.error THEN "IndexError"                               \* lines 719, 724
    ELSE IF ~LengthWithUnit(StrokeWidthOf(d[key].style), <<"m", "m">>).ok
    THEN "TypeError"                                                \* line 744
    ELSE IF FillOf(d[key].style) = "none" /\ StrokeOf(d[key].style) = "none"
    THEN "ignored"                                                  \* lines 750-752
    ELSE "converted"

\* One iteration of "for key in self.paths" (lines 1232-1234).  The dict is
\* keyed by node objects, so the order of the keys is not the document's.
ConvertPath(key) ==
    /\ pc = "convert"
    /\ key \in todo
    /\ \E c \in {FindContainment(paths[key], 1, 2, NoContainment(Len(paths[key])))} :
       \E outcome \in {ConvertOutcome(doc, key, paths[key], c)} :
       LET node == doc[key]
           path == paths[key]
           noid == node.id = <<>>
           id == IF noid THEN NatToStr(pathid) \o <<"x">> ELSE Sanitize(node.id)
           rawid == IF noid THEN id ELSE node.id
           stroke_width_mm == LengthWithUnit(StrokeWidthOf(node.style), <<"m", "m">>)
           filled == FillOf(node.style) # "none"
           extrusion == ResolveExtrusion(doc, key, options)
           call_item == [node |-> key, id |-> id, raise |-> extrusion.raise,
                         height |-> extrusion.height, w |-> stroke_width_mm,
                         scale |-> extrusion.scale]
           lists == AppendCall([call_list |-> call_list, call_list_neg |-> call_list_neg],
                               call_item, extrusion.neg)
           written ==
               Declarations(path, c, key, id, 1, 0, cx, cy)
                   \o <<W("module", key, id, 0, 0, <<>>)>>
                   \o Blocks(path, c, key, id, 1, 0, filled /\ ~options.force_line)
                   \o <<Plain("end")>>
       IN  /\ todo' = todo \ {key}
           /\ pc' = IF outcome \in {"IndexError", "TypeError"} THEN "crashed" ELSE pc
           /\ pathid' = IF noid /\ outcome \in {"TypeError", "ignored", "converted"}
                        THEN pathid + 1 ELSE pathid
           /\ errormsg' = IF outcome = "ignored"
                          THEN Append(errormsg, [msg |-> "has fill:none and stroke:none",
                                                 node |-> key, rawid |-> rawid])
                          ELSE errormsg
           /\ f' = [f EXCEPT !.text = IF outcome = "converted"
                                      THEN @ \o <<Plain("newline")>> \o written
                                      ELSE Append(@, Plain("newline"))]
           /\ call_list' = IF outcome = "converted" THEN lists.call_list ELSE call_list
           /\ call_list_neg' = IF outcome = "converted" THEN lists.call_list_neg
                               ELSE call_list_neg
    /\ UNCHANGED <<geo, doc, options, res, next, entered, paths, xmin, xmax, ymin, ymax,
                   cx, cy, centered, warnings, launched>>

\* lines 1199-1230: the file is opened and the preamble written
OpenFile ==
    /\ pc = "open"
    /\ f' = [state |-> "open", text |-> <<Plain("preamble")>>]
    /\ todo' = DOMAIN paths
    /\ pc' = "convert"
    /\ UNCHANGED <<geo, doc, options, res, next, entered, paths, xmin, xmax, ymin, ymax,
                   cx, cy, centered, call_list, call_list_neg, pathid, errormsg,
                   warnings, launched>>

\* open() raises IOError: lines 1256-1258
OpenFails ==
    /\ pc = "open"
    /\ errormsg' = errormsg \o <<[msg |-> "Unable to write file", node |-> 0],
                                 [msg |-> "ERROR", node |-> 0]>>
    /\ pc' = "post"
    /\ UNCHANGED <<geo, doc, options, res, next, entered, paths, xmin, xmax, ymin, ymax,
                   cx, cy, centered, f, call_list, call_list_neg, pathid, todo,
                   warnings, launched>>

RECURSIVE Calls(_, _)
Calls(list, k) ==
    IF k > Len(list) THEN <<>>
    ELSE <<W("call", list[k].node, list[k].id, 0, 0, list[k])>> \o Calls(list, k + 1)

\* lines 1241-1253: difference() { union() { calls } union() { anti-matter calls } }
AssemblyText(cl, cln) ==
    <<Plain("module_main"), Plain("union")>> \o Calls(cl, 1)
        \o <<Plain("union")>> \o Calls(cln, 1) \o <<Plain("main_call")>>

\* lines 1236-1254
WriteAssembly ==
    /\ pc = "convert"
    /\ todo = {}
    /\ f' = [state |-> "closed", text |-> f.text \o AssemblyText(call_list, call_list_neg)]
    /\ pc' = "post"
    /\ UNCHANGED <<geo, doc, options, res, next, entered, paths, xmin, xmax, ymin, ymax,
                   cx, cy, centered, call_list, call_list_neg, pathid, todo, errormsg,
                   warnings, launched>>

\* lines 1256-1258: a write to the open file raises IOError; the handler
\* reports it and effect goes on after the try statement
WriteFails ==
    /\ pc = "convert"
    /\ errormsg' = errormsg \o <<[msg |-> "Unable to write file", node |-> 0],
                                 [msg |-> "ERROR", node |-> 0]>>
    /\ pc' = "post"
    /\ UNCHANGED <<geo, doc, options, res, next, entered, paths, xmin, xmax, ymin, ymax,
                   cx, cy, centered, f, call_list, call_list_neg, pathid, todo,
                   warnings, launched>>

\* lines 1260-1351, the commands started in order: the viewer unless the pid
\* file names a running one with the same command, the STL conversion when
\* scad2stl or stlpost is set, and the post-processing unless the STL file is
\* missing or empty (line 1331 then clears stlpost)
Commands(opt, running, stl_len) ==
    (IF opt.scadview = "true" /\ ~running THEN <<"scadview">> ELSE <<>>)
        \o (IF opt.scad2stl = "true" \/ opt.stlpost = "true" THEN <<"scad2stl">> ELSE <<>>)
        \o (IF opt.stlpost = "true" /\ stl_len > 0 THEN <<"stlpost">> ELSE <<>>)

\* The lengths os.path.getsize can give for the STL file, -1 when it is missing.
StlLengths == {-1, 0, 1}

PostProcess ==
    /\ pc = "post"
    /\ \E running \in BOOLEAN : \E stl_len \in StlLengths :
           /\ launched' = launched \o Commands(options, running, stl_len)
           /\ options' = IF (options.scad2stl = "true" \/ options.stlpost = "true")
                              /\ stl_len <= 0
                          THEN [options EXCEPT !.stlpost = "false"] ELSE options
    /\ pc' = "done"
    /\ UNCHANGED <<geo, doc, res, next, entered, paths, xmin, xmax, ymin, ymax,
                   cx, cy, centered, f, call_list, call_list_neg, pathid, todo, errormsg,
                   warnings>>

(***************************************************************************)
(* Spec: one run of effect on a drawing of 1..MaxNodes nodes, groups and   *)
(* paths, whose path data are polylines with even coordinates.             *)
(***************************************************************************)
Tri == <<<<0, 0>>, <<4, 0>>, <<0, 4>>>>
Outer == <<<<0, 0>>, <<8, 0>>, <<8, 8>>, <<0, 8>>>>
Inner == <<<<2, 2>>, <<4, 2>>, <<4, 4>>, <<2, 4>>>>
Far == <<<<-6, -2>>, <<-2, -4>>>>
PathDatas == {<<Tri>>, <<Outer, Inner>>, <<Inner, Outer>>, <<Far>>, <<Tri, Far>>}
Offsets == {<<0, 0>>, <<-6, 2>>}
Translated(subs, o) == [k \in 1..Len(subs) |-> Moved(subs[k], -o[1], -o[2])]

Outline == [NoStyle EXCEPT !.fill = "none", !.stroke = "#000"]
Invisible == [NoStyle EXCEPT !.fill = "none"]
BadWidth == [NoStyle EXCEPT !.stroke_width = <<"2", "e", "m">>]
RunStyles == {NoStyle, Outline, Invisible, BadWidth}
RunIds == {<<>>, Id_q_a3mm, <<"a", ".", "b">>}

\* What a path element is drawn from: every path data at every offset, every
\* id, every style, the two rings as outlines, and a path without data.
PathAttrs ==
    {[id |-> <<>>, style |-> NoStyle, subs |-> Translated(d, o)] :
         d \in PathDatas, o \in Offsets}
      \cup {[id |-> i, style |-> NoStyle, subs |-> <<Tri>>] : i \in RunIds}
      \cup {[id |-> <<>>, style |-> st, subs |-> <<Tri>>] : st \in RunStyles}
      \cup {[id |-> <<>>, style |-> Outline, subs |-> d] :
               d \in {<<Outer, Inner>>, <<Inner, Outer>>}}
      \cup {[id |-> <<>>, style |-> NoStyle, subs |-> <<>>]}
GroupIds == {<<>>, Id_q_a3mm}

RECURSIVE AncestorsOrSelf(_, _)
AncestorsOrSelf(d, i) ==
    IF i = 0 THEN {} ELSE {i} \cup AncestorsOrSelf(d, d[i].parent)

\* The nodes that can follow the nodes of d in document order.
NodesAfter(d) ==
    LET parents == {0} \cup (IF d = <<>> THEN {}
                             ELSE {j \in AncestorsOrSelf(d, Len(d)) : d[j].tag = "g"})
    IN  {Node("g", par, i, <<>>) : par \in parents, i \in GroupIds}
          \cup {[Node("path", par, a.id, <<>>) EXCEPT !.style = a.style, !.subs = a.subs] :
                   par \in parents, a \in PathAttrs}

RECURSIVE Docs(_)
Docs(n) ==
    IF n = 0 THEN {<<>>}
    ELSE UNION {{Append(d, nd) : nd \in NodesAfter(d)} : d \in Docs(n - 1)}

Init ==
    /\ \E n \in 1..MaxNodes : doc \in Docs(n)
    /\ options \in [parsedesc : {"true", "false"}, force_line : BOOLEAN,
                   scadview : {"false"}, scad2stl : {"false"}, stlpost : {"false"}]
    /\ geo = NoGeo
    /\ res = NoRes
    /\ InitSelf("traverse")

Next ==
    \/ TraverseNode
    \/ ComputeCenter
    \/ OpenFile
    \/ OpenFails
    \/ \E key \in todo : ConvertPath(key)
    \/ WriteAssembly
    \/ PostProcess

Spec == Init /\ [][Next]_vars

(***************************************************************************)
(* SpecNest: one run of effect on a drawing of one path element whose path *)
(* data are 1..MaxSubs subpaths, each one of four shapes that lie inside   *)
(* one another: a frame, a U, a bar across the two arms of the U, and a    *)
(* short line in the gap of the U, inside the bar.                         *)
(***************************************************************************)
Frame == <<<<-2, -2>>, <<16, -2>>, <<16, 14>>, <<-2, 14>>>>
UShape ==
    <<<<0, 0>>, <<14, 0>>, <<14, 12>>, <<10, 12>>, <<10, 4>>, <<4, 4>>, <<4, 12>>, <<0, 12>>>>
Bar == <<<<2, 6>>, <<12, 6>>, <<12, 10>>, <<2, 10>>>>
Dot == <<<<6, 8>>, <<8, 8>>>>
NestShapes == {Frame, UShape, Bar, Dot}

InitNest ==
    /\ \E n \in 1..MaxSubs : \E subs \in [1..n -> NestShapes] :
           doc = <<[Node("path", 0, <<"p">>, <<>>) EXCEPT !.subs = subs]>>
    /\ options \in [parsedesc : {"true"}, force_line : BOOLEAN,
                   scadview : {"false"}, scad2stl : {"false"}, stlpost : {"false"}]
    /\ geo = NoGeo
    /\ res = NoRes
    /\ InitSelf("traverse")

SpecNest == InitNest /\ [][Next]_vars

(***************************************************************************)
(* The curve flattener: subdivideCubicPath (lines 289-323), run on one      *)
(* subpath of a cubic super path with two values of the smoothness option.  *)
(* A node of the subpath is <<handle before, point, handle after>>         *)
(* (sp[k][0], sp[k][1], sp[k][2]); a point is <<x, y>>.  Coordinates and    *)
(* tolerances are fixed-point numbers, FlatUnit steps to the pixel, and a   *)
(* halving rounds down to the step.  The loop has no bound in the source;   *)
(* a run is followed for MaxSplits splits.                                  *)
(***************************************************************************)
FlatUnit == 64
MaxSplits == 3

Minus(a, b) == <<a[1] - b[1], a[2] - b[2]>>
Dot2(a, b) == a[1] * b[1] + a[2] * b[2]
Cross(a, b) == a[1] * b[2] - a[2] * b[1]

\* ffgeom.Segment(s0, s1).distanceToPoint(p), squared, as the fraction
\* num / den: the distance to the nearer end when the foot of the
\* perpendicular is outside the segment, the perpendicular distance otherwise.
DistanceToPoint(s0, s1, p) ==
    LET c1 == Dot2(Minus(p, s0), Minus(s1, s0))
        c2 == Dot2(Minus(s1, s0), Minus(s1, s0))
    IN  IF c1 <= 0 THEN [num |-> Dot2(Minus(p, s0), Minus(p, s0)), den |-> 1]
        ELSE IF c2 <= c1 THEN [num |-> Dot2(Minus(p, s1), Minus(p, s1)), den |-> 1]
        ELSE [num |-> Cross(Minus(s1, s0), Minus(p, s0)) * Cross(Minus(s1, s0), Minus(p, s0)),
              den |-> c2]

\* line 313: "cspsubdiv.maxdist(b) > flat", the larger of the distances of
\* the two inner control points from the chord, compared by squares
MaxDistExceeds(b, flat) ==
    \/ flat < 0
    \/ \E p \in {b[2], b[3]} :
           LET d == DistanceToPoint(b[1], b[4], p) IN d.num > flat * flat * d.den

\* bezmisc.tpoint(a, b, 0.5)
TPoint(a, b) == <<(a[1] + b[1]) \div 2, (a[2] + b[2]) \div 2>>

\* line 318: bezmisc.beziersplitatt(b, 0.5), by de Casteljau
BezierSplitAtT(b) ==
    LET m1 == TPoint(b[1], b[2])
        m2 == TPoint(b[2], b[3])
        m3 == TPoint(b[3], b[4])
        m4 == TPoint(m1, m2)
        m5 == TPoint(m2, m3)
        m == TPoint(m4, m5)
    IN  [one |-> <<b[1], m1, m4, m>>, two |-> <<m, m5, m3, b[4]>>]

\* lines 306-311: b = (p0, p1, p2, p3) of the segment from sp[i-1] to sp[i]
\* (the source counts the nodes from 0)
Bezier(sp, i) == <<sp[i][2], sp[i][3], sp[i + 1][1], sp[i + 1][2]>>

\* Mutant: the first handle of the split goes to the handle before sp[i-1],
\* which belongs to the segment before.
SplitNodes_WrongHandle(sp, i) ==
    LET s == BezierSplitAtT(Bezier(sp, i))
    IN  [k \in 1..(Len(sp) + 1) |->
            IF k < i THEN sp[k]
            ELSE IF k = i THEN <<s.one[2], sp[i][2], sp[i][3]>>
            ELSE IF k = i + 1 THEN <<s.one[3], s.one[4], s.two[2]>>
            ELSE IF k = i + 2 THEN <<s.two[3], sp[i + 1][2], sp[i + 1][3]>>
            ELSE sp[k - 1]]

\* lines 318-322: sp[i-1][2] = one[1]; sp[i][0] = two[2];
\* p = [one[2], one[3], two[1]]; "sp[i:1] = [p]" inserts p before sp[i]
SplitNodes(sp, i) ==
    LET s == BezierSplitAtT(Bezier(sp, i))
    IN  [k \in 1..(Len(sp) + 1) |->
            IF k < i THEN sp[k]
            ELSE IF k = i THEN <<sp[i][1], sp[i][2], s.one[2]>>
            ELSE IF k = i + 1 THEN <<s.one[3], s.one[4], s.two[2]>>
            ELSE IF k = i + 2 THEN <<s.two[3], sp[i + 1][2], sp[i + 1][3]>>
            ELSE sp[k - 1]]

\* Mutant: each run is given the smoothness of the other run.
Flat_OfOtherRun(r) == geo.smoothness[3 - r]

\* line 608: float(self.options.smoothness), passed on as it is
Flat(r) == geo.smoothness[r]

NotCalled == [pc |-> "idle", sp |-> <<>>, flat |-> 0, i |-> 0, splits |-> <<>>]

\* line 608 and line 289: the call, with i = 1
CallSubdivideCubicPath(r) ==
    /\ res[r].pc = "idle"
    /\ res' = [res EXCEPT ![r] = [pc |-> "running", sp |-> geo.sp, flat |-> Flat(r),
                                   i |-> 1, splits |-> <<>>]]
    /\ UNCHANGED <<geo, doc, options, runVars>>

\* lines 302-323: one pass of the inner loop: return at the end of the
\* subpath, go on to the next segment when this one is flat, split it and
\* look at its first half otherwise
SubdivideStep(r) ==
    /\ res[r].pc = "running"
    /\ \E sp \in {res[r].sp} : \E i \in {res[r].i} :
           IF i >= Len(sp)
           THEN res' = [res EXCEPT ![r].pc = "returned"]
           ELSE IF ~MaxDistExceeds(Bezier(sp, i), res[r].flat)
           THEN res' = [res EXCEPT ![r].i = i + 1]
           ELSE /\ Len(res[r].splits) < MaxSplits
                /\ res' = [res EXCEPT ![r].sp = SplitNodes(sp, i),
                                      ![r].splits = Append(@, Bezier(sp, i))]
    /\ UNCHANGED <<geo, doc, options, runVars>>

\* The subpaths of cubicsuperpath.CubicSuperPath for "M p0 C p1 p2 p3" and
\* "M p0 L p1": the end nodes have their handles on the point.
CurveTo(p0, p1, p2, p3) == <<<<p0, p0, p1>>, <<p2, p3, p3>>>>
LineTo(p0, p1) == <<<<p0, p0, p0>>, <<p1, p1, p1>>>>
Join(a, b) == <<a[1], <<a[2][1], a[2][2], b[1][3]>>, b[2]>>
Arch == CurveTo(<<0, 0>>, <<0, FlatUnit>>, <<FlatUnit, FlatUnit>>, <<FlatUnit, 0>>)
Wave == CurveTo(<<0, 0>>, <<FlatUnit, 0>>, <<0, FlatUnit>>, <<FlatUnit, FlatUnit>>)
Straight == LineTo(<<FlatUnit, 0>>, <<0, 0>>)
ArchStraight == Join(Arch, Straight)
StraightArch == Join(LineTo(<<FlatUnit, FlatUnit>>, <<0, 0>>), Arch)
FlatCurves == {Arch, Wave, Straight, ArchStraight, StraightArch}
Smoothnesses == {-1, 0, FlatUnit \div 12, FlatUnit \div 3, FlatUnit}

InitFlat ==
    /\ geo \in [sp : FlatCurves, smoothness : Smoothnesses \X Smoothnesses]
    /\ res = <<NotCalled, NotCalled>>
    /\ doc = <<>>
    /\ options = DefaultOptions
    /\ NoRun

NextFlat == \E r \in 1..2 : CallSubdivideCubicPath(r) \/ SubdivideStep(r)

SpecFlat == InitFlat /\ [][NextFlat]_vars

(***************************************************************************)
(* SpecWarn: one run of effect on a drawing of 1..MaxElems top-level       *)
(* elements, among them elements the traversal cannot draw: an image, a    *)
(* text with and without characters, and an element of a tag the traversal *)
(* does not know.                                                          *)
(***************************************************************************)
MaxElems == 3

WarnNodes ==
    {Node("image", 0, <<>>, <<>>),
     [Node("text", 0, <<>>, <<>>) EXCEPT !.texts = <<"abc">>],
     Node("text", 0, <<>>, <<>>),
     Node("flowRoot", 0, <<>>, <<>>),
     Node("title", 0, <<>>, <<>>),
     [Node("path", 0, <<>>, <<>>) EXCEPT !.subs = <<Tri>>]}

InitWarn ==
    /\ \E n \in 1..MaxElems : doc \in [1..n -> WarnNodes]
    /\ options = DefaultOptions
    /\ geo = NoGeo /\ res = NoRes /\ InitSelf("traverse")

SpecWarn == InitWarn /\ [][Next]_vars

(***************************************************************************)
(* SpecPost: one run of effect on a drawing of one or two paths with every *)
(* setting of the options scadview, scad2stl and stlpost, in which a write *)
(* to the output file can fail as well as its opening.                     *)
(***************************************************************************)
PostDocs ==
    {<<[Node("path", 0, <<"p">>, <<>>) EXCEPT !.subs = <<Tri>>]>>,
     <<[Node("path", 0, <<"p">>, <<>>) EXCEPT !.subs = <<Tri>>],
       [Node("path", 0, <<"q">>, <<>>) EXCEPT !.subs = <<Outer, Inner>>]>>}

InitPost ==
    /\ doc \in PostDocs
    /\ options \in [parsedesc : {"true"}, force_line : {FALSE},
                   scadview : {"true", "false"}, scad2stl : {"true", "false"},
                   stlpost : {"true", "false"}]
    /\ geo = NoGeo /\ res = NoRes /\ InitSelf("traverse")

NextPost == Next \/ WriteFails

SpecPost == InitPost /\ [][NextPost]_vars

(***************************************************************************)
(* SpecLine: one run of effect on a drawing of one line element whose four *)
(* coordinates are even numbers around zero.                               *)
(***************************************************************************)
LineGridMax == 1
LineCoord == {2 * k : k \in (-LineGridMax)..LineGridMax}

InitLine ==
    /\ \E c \in [1..4 -> LineCoord] :
           doc = <<[Node("line", 0, <<"l">>, <<>>) EXCEPT !.coords = c]>>
    /\ options \in [parsedesc : {"true"}, force_line : BOOLEAN,
                   scadview : {"false"}, scad2stl : {"false"}, stlpost : {"false"}]
    /\ geo = NoGeo /\ res = NoRes /\ InitSelf("traverse")

SpecLine == InitLine /\ [][Next]_vars

(***************************************************************************)
(* SpecUse: recursivelyTraverseSvg followed call by call on drawings with  *)
(* groups, paths, defs and use elements.  A frame of the stack is one call *)
(* of the function: the node list it iterates over, the position in it,    *)
(* and parent_visibility.  href is the id a use refers to (the value of    *)
(* xlink:href without its '#'), coords of a use its x and y.  Python ends  *)
(* a recursion deeper than its limit with a RuntimeError; the model's      *)
(* limit is RecursionLimit calls.                                          *)
(***************************************************************************)
MaxUseNodes == 3
RecursionLimit == 4

\* The children of node n (0: of the root), in document order.
RECURSIVE ChildrenFrom(_, _, _)
ChildrenFrom(d, n, k) ==
    IF k > Len(d) THEN <<>>
    ELSE (IF d[k].parent = n THEN <<k>> ELSE <<>>) \o ChildrenFrom(d, n, k + 1)
Children(d, n) == ChildrenFrom(d, n, 1)

\* line 931: node.xpath('//*[@id="%s"]' % refid[1:]), the nodes with that id
RECURSIVE WithId(_, _, _)
WithId(d, id, k) ==
    IF k > Len(d) THEN <<>>
    ELSE (IF d[k].id = id THEN <<k>> ELSE <<>>) \o WithId(d, id, k + 1)

Frame0(list, v) == [list |-> list, k |-> 1, v |-> v]

\* lines 865-866 called at line 1192 for the root
StartTraverse(d) ==
    [pc |-> "running", stack |-> <<Frame0(Children(d, 0), "visible")>>, calls |-> <<>>]

\* lines 904-941: the recursive call node n makes, if any: for a group over
\* its children, for a use over the nodes it refers to with the visibility
\* of the use element
Recurse(d, n, v) ==
    IF d[n].tag = "g" THEN [call |-> TRUE, list |-> Children(d, n), v |-> v]
    ELSE IF d[n].tag = "use" /\ d[n].href # <<>> /\ WithId(d, d[n].href, 1) # <<>>
    THEN [call |-> TRUE, list |-> WithId(d, d[n].href, 1),
          v |-> IF d[n].visibility = "" THEN v ELSE d[n].visibility]
    ELSE [call |-> FALSE, list |-> <<>>, v |-> v]

\* line 937: composeTransform and parseTransform are not names of the module
RaisesNameError(d, n) ==
    /\ d[n].tag = "use" /\ d[n].href # <<>> /\ WithId(d, d[n].href, 1) # <<>>
    /\ d[n].coords # <<>>
    /\ d[n].coords[1] # 0 \/ d[n].coords[2] # 0

\* lines 887-1152: one pass of "for node in aNodeList" in the innermost
\* call, or its return when the list is at its end
TraverseStep ==
    /\ res.pc = "running"
    /\ LET top == res.stack[Len(res.stack)]
           rest == SubSeq(res.stack, 1, Len(res.stack) - 1)
       IN  IF top.k > Len(top.list)
           THEN res' = [res EXCEPT !.stack = rest,
                                   !.pc = IF rest = <<>> THEN "returned" ELSE "running"]
           ELSE LET n == top.list[top.k]
                    v == Visibility(doc[n], top.v)
                    on == [top EXCEPT !.k = top.k + 1]
                    r == Recurse(doc, n, v)
                IN  IF v \in {"hidden", "collapse"} \/ IsDisplayNone(doc[n].style)
                    THEN res' = [res EXCEPT !.stack = Append(rest, on)]
                    ELSE IF RaisesNameError(doc, n)
                    THEN res' = [res EXCEPT !.pc = "NameError"]
                    ELSE IF r.call
                    THEN IF Len(res.stack) >= RecursionLimit
                         THEN res' = [res EXCEPT !.pc = "RuntimeError"]
                         ELSE res' = [res EXCEPT
                                         !.stack = Append(rest, on) \o <<Frame0(r.list, r.v)>>]
                    ELSE res' = [res EXCEPT
                                    !.stack = Append(rest, on),
                                    !.calls = IF PathData(doc[n]) # <<>>
                                              THEN Append(@, n) ELSE @]
    /\ UNCHANGED <<geo, doc, options, runVars>>

UseId(i) == <<"n", DigitChar(i)>>

\* The nodes that can follow the nodes of d in document order: a group, a
\* defs, a path, and a use of any node of the drawing, with and without x.
UseNodesAfter(d, n) ==
    LET parents == {0} \cup (IF d = <<>> THEN {}
                             ELSE {j \in AncestorsOrSelf(d, Len(d)) : d[j].tag \in {"g", "defs"}})
        id == UseId(Len(d) + 1)
    IN  {Node(t, par, id, <<>>) : par \in parents, t \in {"g", "defs"}}
          \cup {[Node("path", par, id, <<>>) EXCEPT !.subs = <<Tri>>] : par \in parents}
          \cup {[Node("use", par, id, <<>>) EXCEPT !.href = UseId(h)] :
                   par \in parents, h \in 1..n}
          \cup {[Node("use", par, id, <<>>) EXCEPT !.href = UseId(1), !.coords = <<2, 0>>] :
                   par \in parents}

RECURSIVE UseDocs(_, _)
UseDocs(k, n) ==
    IF k = 0 THEN {<<>>}
    ELSE UNION {{Append(d, nd) : nd \in UseNodesAfter(d, n)} : d \in UseDocs(k - 1, n)}

InitUse ==
    /\ \E n \in 1..MaxUseNodes : doc \in UseDocs(n, n)
    /\ options = DefaultOptions
    /\ geo = NoGeo
    /\ res = StartTraverse(doc)
    /\ NoRun

NextUse == TraverseStep

SpecUse == InitUse /\ [][NextUse]_vars

(***************************************************************************)
(* SpecVis: recursivelyTraverseSvg followed call by call on drawings of     *)
(* groups, paths and use elements with every value of the visibility       *)
(* attribute and with the style display:none.                              *)
(***************************************************************************)
MaxVisNodes == 3

DisplayNone == [NoStyle EXCEPT !.display = "none"]
Hidings ==
    {[visibility |-> v, style |-> NoStyle] : v \in {"hidden", "collapse"}}
      \cup {[visibility |-> "", style |-> DisplayNone]}
Showings == {"visible", "inherit"}

\* The nodes that can follow the nodes of d in document order: a group, a
\* path, and a use of any node before it.
VisNodesAfter(d) ==
    LET parents == {0} \cup (IF d = <<>> THEN {}
                             ELSE {j \in AncestorsOrSelf(d, Len(d)) : d[j].tag = "g"})
        id == UseId(Len(d) + 1)
    IN  {Node("g", par, id, <<>>) : par \in parents}
          \cup {[Node("path", par, id, <<>>) EXCEPT !.subs = <<Tri>>] : par \in parents}
          \cup {[Node("use", par, id, <<>>) EXCEPT !.href = UseId(h)] :
                   par \in parents, h \in 1..Len(d)}

RECURSIVE VisDocs(_)
VisDocs(k) ==
    IF k = 0 THEN {<<>>}
    ELSE UNION {{Append(d, nd) : nd \in VisNodesAfter(d)} : d \in VisDocs(k - 1)}

\* The drawing d with node i hidden in the way h and node j given the
\* visibility v (0: no such node).
Marked(d, i, h, j, v) ==
    [n \in DOMAIN d |->
        IF n = i THEN [d[n] EXCEPT !.visibility = h.visibility, !.style = h.style]
        ELSE IF n = j THEN [d[n] EXCEPT !.visibility = v]
        ELSE d[n]]

InitVis ==
    /\ \E n \in 1..MaxVisNodes : \E d \in VisDocs(n) :
       \E i \in 0..n, h \in Hidings, j \in 0..n, v \in Showings :
           doc = Marked(d, i, h, j, v)
    /\ options = DefaultOptions
    /\ geo = NoGeo
    /\ res = StartTraverse(doc)
    /\ NoRun

SpecVis == InitVis /\ [][NextUse]_vars

(***************************************************************************)
(* SpecIds: one run of effect on a drawing of paths whose ids are absent,   *)
(* differ in characters the sanitization removes, or have the form of the  *)
(* names given to paths without id.                                        *)
(***************************************************************************)
MaxIdNodes == 2

NameIds == {<<>>, <<"a", "b">>, <<"a", ".", "b">>, <<"a", "-", "b">>, <<"0", "x">>, <<"c">>}

InitIds ==
    /\ \E n \in 1..MaxIdNodes : \E ids \in [1..n -> NameIds] :
           /\ \A i, j \in 1..n : (i # j /\ ids[i] = ids[j]) => ids[i] = <<>>
           /\ doc = [i \in 1..n |-> [Node("path", 0, ids[i], <<>>) EXCEPT !.subs = <<Tri>>]]
    /\ options = DefaultOptions
    /\ geo = NoGeo /\ res = NoRes /\ InitSelf("traverse")

SpecIds == InitIds /\ [][Next]_vars

(***************************************************************************)
(* Claims about the extrusion attributes                                   *)
(***************************************************************************)
\* The height lines of a node's own description, in text order.
RECURSIVE DescHeightLines(_, _)
DescHeightLines(descs, k) ==
    IF k > Len(descs) THEN <<>>
    ELSE FindAll("RE_AUTO_HEIGHT_DESC", descs[k], 1) \o DescHeightLines(descs, k + 1)

\* The height string the precedence of the claim selects for node n, highest
\* source first: own description, own id, then the same for each enclosing
\* group from the nearest outwards, then 'h'.
RECURSIVE HeightByPrecedence(_, _)
HeightByPrecedence(d, n) ==
    IF DescHeightLines(d[n].descs, 1) # <<>> THEN Last(DescHeightLines(d[n].descs, 1))
    ELSE IF IdHeights(d[n].id) # <<>> THEN ReplaceUnderscore(Last(IdHeights(d[n].id)))
    ELSE IF IsGroup(d, d[n].parent) THEN HeightByPrecedence(d, d[n].parent)
    ELSE <<"h">>

HasPrefix(h) == h[1] \in {"a", "A"}
Unprefixed(h) == IF HasPrefix(h) THEN Tail(h) ELSE h

Resolved == res.done /\ options.parsedesc = "true"

\* C1: with annotation parsing enabled the resolved height is the one the
\* precedence selects (own description, own id, the enclosing groups from
\* the nearest to the farthest, 'h'); an id height of 10.5 alone resolves to
\* 10.5, and to 7 when the description adds a height of 7.
C1_HeightPrecedence ==
    Resolved =>
        /\ res.extrusion.height = Unprefixed(HeightByPrecedence(doc, res.node))
        /\ (Len(doc) = 1 /\ doc[1].id = Id_p_10_5_mm /\ doc[1].descs = <<>>)
               => res.extrusion.height = <<"1", "0", ".", "5">>
        /\ (Len(doc) = 1 /\ doc[1].id = Id_p_10_5_mm
               /\ doc[1].descs = <<<<Line("height", <<"7">>, "mm")>>>>)
               => res.extrusion.height = <<"7">>

\* C1 witness: the farthest group gives a height in its id, the nearest one
\* in its description, the element gives none: the nearest group's is resolved.
C1_Witness ==
    /\ Resolved
    /\ Len(doc) = 3
    /\ doc[1].id = Id_q_a3mm /\ doc[1].descs = <<>>
    /\ doc[2].id = <<>> /\ doc[2].descs = <<<<Line("height", <<"7">>, "mm")>>>>
    /\ doc[3].id = <<>> /\ doc[3].descs = <<>>
    /\ res.extrusion.height = <<"7">>

\* C2: after the whole walk the negative flag is true exactly when the height
\* string of the last writer in precedence order begins with 'a' or 'A', and
\* the prefix is stripped from the resolved height.
C2_NegativeIffResolvedPrefixed ==
    Resolved =>
        /\ res.extrusion.neg = HasPrefix(HeightByPrecedence(doc, res.node))
        /\ res.extrusion.height = Unprefixed(HeightByPrecedence(doc, res.node))

(***************************************************************************)
(* Claims about the containment tests                                      *)
(***************************************************************************)
IsVertex(p, poly) == \E k \in 1..Len(poly) : poly[k] = p

\* The edges of the closed polygon: poly[k] -> poly[k+1], and last -> first.
ClosedEdge(poly, k) == <<poly[k], poly[(k % Len(poly)) + 1]>>

OnHorizontalEdgeK(p, poly, k) ==
    LET e == ClosedEdge(poly, k)
    IN  /\ e[1][2] = e[2][2]
        /\ p[2] = e[1][2]
        /\ e[1][1] # e[2][1]
        /\ p[1] > Min(e[1][1], e[2][1])
        /\ p[1] < Max(e[1][1], e[2][1])

PointDone == geo.op = "pointInPoly" /\ geo.done
PolyDone == geo.op = "polyInPoly" /\ geo.done

\* C6: a point that coincides with a vertex of the polygon is classified
\* inside, for polygons of one vertex and more, without a bounding box and
\* with the polygon's own.
C6_VertexIsInside ==
    (PointDone /\ IsVertex(geo.p, geo.poly))
        => (geo.nobox = "True" /\ geo.box = "True")

\* C6 witness: the test has run on a vertex that is not the first one of a
\* polygon of several vertices, and on the vertex of a one-vertex polygon.
C6_Witness ==
    /\ PointDone
    /\ Len(geo.poly) = PtMaxVerts
    /\ geo.poly[PtMaxVerts] = geo.p
    /\ geo.poly[1] # geo.p
    /\ geo.box = "True"

\* C7: a point on a horizontal edge of the closed polygon, strictly between
\* the edge's two distinct end x-coordinates, is classified inside; the edge
\* from the last vertex back to the first is one of the edges.
C7_OnHorizontalEdgeIsInside ==
    PointDone =>
        \A k \in 1..Len(geo.poly) :
            OnHorizontalEdgeK(geo.p, geo.poly, k)
                => (geo.nobox = "True" /\ geo.box = "True")

\* C8 as claimed: for two subpaths with non-identical vertex lists,
\* polyInPoly never reports both A in B and B in A.
C8_AntiSymmetric ==
    (PolyDone /\ geo.a # geo.b)
        => ~(geo.ab_box = "True" /\ geo.ba_box = "True")

\* C8 as amended: for two subpaths with no vertex in common, polyInPoly
\* never reports both A in B and B in A.
C8_AntiSymmetricNoCommonVertex ==
    (PolyDone /\ ~(\E k \in 1..Len(geo.a) : IsVertex(geo.a[k], geo.b)))
        => ~(geo.ab_box = "True" /\ geo.ba_box = "True")

\* C8 witness: two subpaths without a common vertex, one reported inside
\* the other.
C8_Witness ==
    /\ PolyDone
    /\ ~(\E k \in 1..Len(geo.a) : IsVertex(geo.a[k], geo.b))
    /\ geo.ab_box = "True"
    /\ geo.ba_box = "False"

\* C9: polyInPoly with the exact bounding boxes returns what the
\* every-vertex test returns without them.
C9_PruningKeepsAnswer ==
    PolyDone => geo.ab_box = geo.ab_nobox

(***************************************************************************)
(* Claims about the run                                                    *)
(***************************************************************************)
\* The positions of the output file where a k was written.
Written(k) == {i \in 1..Len(f.text) : f.text[i].k = k}
Emitted(n) == \E i \in Written("module") : f.text[i].node = n

\* The loop over self.paths has ended without an exception.
AllConverted == pc \in {"post", "done"} \/ (pc = "convert" /\ todo = {})

CallsOf(list, n) == {k \in 1..Len(list) : list[k].node = n}
\* The calls for element n inside the u-th union() of the assembly.
AssemblyCalls(n, u) ==
    {i \in Written("call") :
        f.text[i].node = n /\ Cardinality({j \in Written("union") : j < i}) = u}

\* C3: after all elements are converted, an element whose module was emitted
\* has exactly one call, on the anti-matter list and in the subtractive union
\* if its resolved negative flag is true and on the other list and in the
\* additive union otherwise; an element without a module has no call.
C3_OneCallPerModule ==
    AllConverted =>
        \A n \in 1..Len(doc) :
            LET pos_calls == Cardinality(CallsOf(call_list, n))
                neg_calls == Cardinality(CallsOf(call_list_neg, n))
                additive == Cardinality(AssemblyCalls(n, 1))
                subtractive == Cardinality(AssemblyCalls(n, 2))
            IN  IF Emitted(n)
                THEN /\ neg_calls = IF ResolveExtrusion(doc, n, options).neg THEN 1 ELSE 0
                     /\ pos_calls = 1 - neg_calls
                     /\ f.state = "closed" =>
                            (subtractive = neg_calls /\ additive = pos_calls)
                ELSE /\ pos_calls + neg_calls = 0
                     /\ additive + subtractive = 0

\* C3 witness: the assembly is written with the call of one element in the
\* additive union and the call of another in the subtractive union.
C3_Witness ==
    /\ f.state = "closed"
    /\ \E n \in DOMAIN paths : AssemblyCalls(n, 1) # {}
    /\ \E n \in DOMAIN paths : AssemblyCalls(n, 2) # {}

PointsWritten == Written("points") # {}

\* C4: when a point declaration is in the file, the traversal has reached
\* every node and the centre has been computed once; from then on the
\* bounding box of the drawing and the centre do not change.
C4_BBoxFinalBeforePoints ==
    [][/\ PointsWritten' => (next' > Len(doc') /\ centered' = 1)
       /\ PointsWritten => UNCHANGED <<xmin, xmax, ymin, ymax, cx, cy, centered>>]_vars

\* C4 witness: the points of two elements are written and the run has ended.
C4_Witness ==
    /\ pc = "done"
    /\ \E i, j \in Written("points") : f.text[i].node # f.text[j].node

\* The vertices of the subpaths the traversal gathered, of one node and of all.
VerticesOf(n) ==
    UNION {{doc[n].subs[i][k] : k \in 1..Len(doc[n].subs[i])} : i \in 1..Len(doc[n].subs)}
GatheredVertices == UNION {VerticesOf(n) : n \in DOMAIN paths}

\* p is the vertex v moved by the centre of the bounding box
IsCentered(p, v) ==
    /\ 2 * p[1] = 2 * v[1] - (xmin + xmax)
    /\ 2 * p[2] = 2 * v[2] - (ymin + ymax)

\* C5: once the traversal is over the bounding box is the exact min/max over
\* the vertices of all gathered subpaths, and every emitted point is a vertex
\* of its element minus ((xmin+xmax)/2, (ymin+ymax)/2): the first points of
\* a declaration are the vertices of its own subpath, in order.
C5_PointsAreCentered ==
    (pc \in {"open", "convert", "post", "done", "crashed"} /\ DOMAIN paths # {}) =>
        /\ \A G \in {GatheredVertices} :
               /\ \A v \in G : xmin <= v[1] /\ v[1] <= xmax /\ ymin <= v[2] /\ v[2] <= ymax
               /\ \E v \in G : v[1] = xmin
               /\ \E v \in G : v[1] = xmax
               /\ \E v \in G : v[2] = ymin
               /\ \E v \in G : v[2] = ymax
        /\ \A i \in Written("points") :
               LET r == f.text[i]
                   own == doc[r.node].subs[r.sub]
               IN  /\ Len(r.data) >= Len(own)
                   /\ \A m \in 1..Len(own) : IsCentered(r.data[m], own[m])
                   /\ \A m \in (Len(own) + 1)..Len(r.data) :
                          \E v \in VerticesOf(r.node) : IsCentered(r.data[m], v)

\* C5 witness: two elements are written, the left edge of the bounding box
\* comes from one and the right edge from the other, and the centre is not
\* the origin.
C5_Witness ==
    /\ f.state = "closed"
    /\ cx # 0 /\ cy # 0
    /\ \E i, j \in Written("points") :
           /\ f.text[i].node # f.text[j].node
           /\ xmin \in {v[1] : v \in VerticesOf(f.text[i].node)}
           /\ xmin \notin {v[1] : v \in VerticesOf(f.text[j].node)}
           /\ xmax \in {v[1] : v \in VerticesOf(f.text[j].node)}
           /\ xmax \notin {v[1] : v \in VerticesOf(f.text[i].node)}

\* The subpaths of one element that the containment loops record as
\* containing subpath i.
ContainedBy(path, i) ==
    {j \in 1..Len(path) :
        /\ j # i
        /\ PolyInPoly(path[i][1], path[i][2], path[j][1], path[j][2]) = "True"
        /\ j > i => PolyInPoly(path[j][1], path[j][2], path[i][1], path[i][2]) # "True"}

\* C10: a subpath with a non-empty containedBy gets no center, points or
\* paths declaration and no sub-block of its own, whatever the mode: the
\* subpath each such write was made for has an empty containedBy.
C10_ContainedIsNotTopLevel ==
    \A own \in {<<f.text[w].node, f.text[w].sub>> :
                    w \in {v \in 1..Len(f.text) :
                              f.text[v].k \in {"center", "points", "paths", "block"}}} :
        ContainedBy(paths[own[1]], own[2]) = {}

\* C10 witness: two elements with a subpath inside another one are written,
\* one filled and one as an outline.
C10_Witness ==
    /\ f.state = "closed"
    /\ \E i, j \in Written("block") :
           /\ f.text[i].data = "msg_linear_extrude_by_paths"
           /\ f.text[j].data = "msg_extrude_by_hull_and_paths"
           /\ \E s \in 1..Len(paths[f.text[i].node]) :
                  ContainedBy(paths[f.text[i].node], s) # {}
           /\ \E s \in 1..Len(paths[f.text[j].node]) :
                  ContainedBy(paths[f.text[j].node], s) # {}

(***************************************************************************)
(* Claims about nested subpaths                                            *)
(***************************************************************************)
\* The points declarations written for element n.
PointsOf(n) == {i \in Written("points") : f.text[i].node = n}

\* The vertices of subpath i of element n as they are written: moved by the centre.
WrittenVertices(n, i) == Moved(paths[n][i][1], cx, cy)

\* seq has the sequence part as a contiguous slice.
HasSlice(seq, part) ==
    \E o \in 0..(Len(seq) - Len(part)) : \A m \in 1..Len(part) : seq[o + m] = part[m]

\* C11: in an emitted element every subpath with a non-empty containedBy has
\* its points in the points declaration of a top-level subpath that encloses
\* it, whatever the depth of the nesting.
C11_ContainedPointsAreFolded ==
    \A n \in DOMAIN paths :
        Emitted(n) =>
            \A i \in 1..Len(paths[n]) :
                ContainedBy(paths[n], i) # {} =>
                    \E w \in PointsOf(n) :
                        /\ f.text[w].sub \in ContainedBy(paths[n], i)
                        /\ HasSlice(f.text[w].data, WrittenVertices(n, i))


\* The subpaths of path that subpath i contains, and a set of numbers as the
\* ascending sequence of its elements.
Contained(path, i) == {j \in 1..Len(path) : i \in ContainedBy(path, j)}
Ascending(S) ==
    CHOOSE s \in [1..Cardinality(S) -> S] : \A a, b \in DOMAIN s : a < b => s[a] < s[b]

RECURSIVE Flatten(_)
Flatten(lists) == IF lists = <<>> THEN <<>> ELSE Head(lists) \o Flatten(Tail(lists))

\* The declarations of kind k written for subpath i of element n.
RecordsOf(k, n, i) == {w \in Written(k) : f.text[w].node = n /\ f.text[w].sub = i}

\* The index list L and the point list P are those of the subpaths members of
\* the element n: one entry per member, in order, the entries are consecutive
\* ranges that together are 0 .. Len(P)-1, and every index refers to the
\* point of the same member.
IndexesMembers(L, P, n, members) ==
    /\ Len(L) = Len(members)
    /\ Flatten(L) = [m \in 1..Len(P) |-> m - 1]
    /\ \A r \in 1..Len(L) :
           /\ Len(L[r]) = Len(paths[n][members[r]][1])
           /\ \A m \in 1..Len(L[r]) :
                  P[L[r][m] + 1] = WrittenVertices(n, members[r])[m]

\* C12: in an emitted element a top-level subpath that contains k >= 1
\* subpaths has one path index list, of exactly k + 1 entries: the first is
\* 0 .. n0-1 for the n0 points of the outer subpath, then one consecutive range
\* per contained subpath in order; the ranges are disjoint, cover exactly the
\* indices of the point list, and each index refers to the point of the same
\* subpath. A square around a smaller square gives two entries, outer first.
C12_PathIndexLists ==
    \A n \in DOMAIN paths :
        Emitted(n) =>
            \A i \in 1..Len(paths[n]) :
                (ContainedBy(paths[n], i) = {} /\ Contained(paths[n], i) # {}) =>
                    /\ Cardinality(RecordsOf("paths", n, i)) = 1
                    /\ Cardinality(RecordsOf("points", n, i)) = 1
                    /\ \A w \in RecordsOf("paths", n, i) : \A p \in RecordsOf("points", n, i) :
                           /\ Len(f.text[w].data) = Cardinality(Contained(paths[n], i)) + 1
                           /\ f.text[w].data[1] = [m \in 1..Len(paths[n][i][1]) |-> m - 1]
                           /\ IndexesMembers(f.text[w].data, f.text[p].data, n,
                                             <<i>> \o Ascending(Contained(paths[n], i)))
                           /\ doc[n].subs \in {<<Frame, Bar>>, <<Bar, Frame>>} =>
                                  f.text[w].data = <<<<0, 1, 2, 3>>, <<4, 5, 6, 7>>>>

\* C12 witness: the run has ended and wrote an index list of three entries.
C12_Witness ==
    /\ pc = "done"
    /\ \E w \in Written("paths") : Len(f.text[w].data) = 3

(***************************************************************************)
(* Claims about the curve flattener                                        *)
(***************************************************************************)
Returned(r) == res[r].pc = "returned"
Segments(r) == 1..(Len(res[r].sp) - 1)

\* C13: when subdivideCubicPath has returned for a tolerance above zero,
\* every two consecutive nodes of the subpath form a segment whose deviation
\* does not exceed the tolerance: no split made a segment accepted before
\* it deviate more.
C13_ReturnedSegmentsAreFlat ==
    \A r \in 1..2 :
        (Returned(r) /\ res[r].flat > 0) =>
            \A i \in Segments(r) : ~MaxDistExceeds(Bezier(res[r].sp, i), res[r].flat)

\* C13 witness: a run has returned after it accepted the first segment and
\* then split the second one twice.
C13_Witness ==
    \E r \in 1..2 :
        /\ Returned(r) /\ res[r].flat > 0
        /\ geo.sp = StraightArch
        /\ Len(res[r].splits) >= 2

\* C14: of two runs on the same curve that have returned, the one with the
\* smaller tolerance above zero has at least as many segments as the other
\* and has split every segment the other has split.
C14_SmallerToleranceSplitsMore ==
    (Returned(1) /\ Returned(2) /\ geo.smoothness[1] > geo.smoothness[2]
                 /\ geo.smoothness[2] > 0) =>
        /\ Len(res[2].sp) >= Len(res[1].sp)
        /\ \A k \in DOMAIN res[1].splits :
               \E m \in DOMAIN res[2].splits : res[2].splits[m] = res[1].splits[k]

\* C14 witness: both runs have returned, the one with the larger tolerance
\* after one split and the other after more.
C14_Witness ==
    /\ Returned(1) /\ Returned(2)
    /\ geo.smoothness[1] > geo.smoothness[2] /\ geo.smoothness[2] > 0
    /\ Len(res[1].splits) = 1
    /\ Len(res[2].splits) > 1

\* C15: no curve is subdivided with a tolerance of zero or less: such a
\* smoothness is rejected before the flattener looks at a segment.
C15_NonPositiveToleranceRejected ==
    \A r \in 1..2 : geo.smoothness[r] <= 0 => res[r].splits = <<>>

(***************************************************************************)
(* Claims about the decomposition into subpaths                            *)
(***************************************************************************)
\* box is the exact bounding box of the vertices verts.
IsExactBBox(box, verts) ==
    /\ \A k \in DOMAIN verts :
           /\ box[1] <= verts[k][1] /\ verts[k][1] <= box[2]
           /\ box[3] <= verts[k][2] /\ verts[k][2] <= box[4]
    /\ \A c \in 1..4 : \E k \in DOMAIN verts : box[c] = verts[k][(c + 1) \div 2]

\* C16: getPathVertices stores for an element exactly one subpath per run of
\* its path data, in the order of the data, with the vertices of the run and
\* with the exact minimum and maximum x and y over those vertices as its
\* bounding box.
C16_OneSubpathPerRun ==
    \A n \in DOMAIN paths :
        /\ Len(paths[n]) = Len(doc[n].subs)
        /\ \A i \in DOMAIN paths[n] :
               /\ paths[n][i][1] = doc[n].subs[i]
               /\ IsExactBBox(paths[n][i][2], paths[n][i][1])

\* C16 witness: the subpaths of a path of three runs with three different
\* bounding boxes, the widest first, have been gathered.
C16_Witness ==
    /\ pc = "open"
    /\ doc[1].subs = <<Frame, Dot, Bar>>
    /\ 1 \in DOMAIN paths

(***************************************************************************)
(* Claims about the elements the run does not convert                      *)
(***************************************************************************)
\* convertPath has been called for the element n: the file was opened and
\* the loop over self.paths has taken n.
Processed(n) ==
    /\ f.state # "none"
    /\ n \in DOMAIN paths
    /\ n \notin todo

WarnedAbout(n) == \E k \in DOMAIN errormsg : errormsg[k].node = n
WrittenFor(n) == {w \in DOMAIN f.text : f.text[w].node = n}
BadStrokeWidth(n) == ~LengthWithUnit(StrokeWidthOf(doc[n].style), <<"m", "m">>).ok
NoFillNoStroke(n) == FillOf(doc[n].style) = "none" /\ StrokeOf(doc[n].style) = "none"

\* C17: an element whose stroke width cannot be parsed or has an unsupported
\* unit is skipped with a warning and nothing else happens: the run is not
\* ended by it, so the other elements are converted and the assembly written.
C17_BadLengthSkipsOnlyTheElement ==
    \A n \in 1..Len(doc) :
        (Processed(n) /\ BadStrokeWidth(n)) =>
            /\ WarnedAbout(n)
            /\ ~Emitted(n)
            /\ pc # "crashed"

\* C19: an element with neither fill nor stroke that convertPath was called
\* for has a warning, nothing of it is in the file (no center, points or
\* paths declaration, no module, no sub-block) and no call on either list;
\* every other element convertPath was called for, with a stroke width that
\* can be read, has its module and its call.
C19_InvisibleIsSkipped ==
    \A n \in 1..Len(doc) :
        Processed(n) =>
            IF BadStrokeWidth(n) THEN TRUE
            ELSE IF NoFillNoStroke(n)
            THEN /\ \E k \in DOMAIN errormsg :
                        /\ errormsg[k].node = n
                        /\ errormsg[k].msg = "has fill:none and stroke:none"
                 /\ WrittenFor(n) = {}
                 /\ CallsOf(call_list, n) = {} /\ CallsOf(call_list_neg, n) = {}
            ELSE /\ Emitted(n)
                 /\ Written("points") \cap WrittenFor(n) # {}
                 /\ Cardinality(CallsOf(call_list, n) \cup CallsOf(call_list_neg, n)) = 1
                 /\ ~WarnedAbout(n)

\* C19 witness: the assembly is written after an element with neither fill
\* nor stroke was skipped and another element was converted.
C19_Witness ==
    /\ f.state = "closed"
    /\ \E n \in DOMAIN paths : NoFillNoStroke(n) /\ WarnedAbout(n)
    /\ \E n \in DOMAIN paths : Emitted(n)

\* The messages of the text msg that inkex.errormsg was given.
Messages(msg) == {k \in DOMAIN errormsg : errormsg[k].msg = msg}

\* C18: in one run the warning for an embedded image, the one for a text and
\* the one for an element of an unknown tag are each given at most once,
\* however many such elements there are, and the traversal reaches the
\* elements after such an element.
C18_OneWarningPerKind ==
    /\ Cardinality(Messages("unable to draw bitmap images")) <= 1
    /\ Cardinality(Messages("unable to draw text")) <= 1
    /\ Cardinality(Messages("unable to draw object")) <= 1
    /\ pc # "traverse" => next > Len(doc)

(***************************************************************************)
(* Claims about the end of the run                                         *)
(***************************************************************************)
\* C20: when the opening of the output file or a write to it has failed, the
\* failure is reported and the run ends there: no viewer, no STL conversion
\* and no post-processing is started.
C20_WriteFailureEndsTheRun ==
    Messages("Unable to write file") # {} =>
        /\ Messages("ERROR") # {}
        /\ launched = <<>>

(***************************************************************************)
(* Claims about the independence of the extrusion attributes               *)
(***************************************************************************)
\* The values the lines of pattern re give in a node's descriptions, in order.
RECURSIVE DescValues(_, _, _)
DescValues(re, descs, k) ==
    IF k > Len(descs) THEN <<>>
    ELSE FindAll(re, descs[k], 1) \o DescValues(re, descs, k + 1)

\* The value of the last line of pattern re among the descriptions of node n
\* and of its enclosing groups, the nearest first; none when there is no line.
RECURSIVE ByDescription(_, _, _, _)
ByDescription(re, d, n, none) ==
    IF DescValues(re, d[n].descs, 1) # <<>> THEN Last(DescValues(re, d[n].descs, 1))
    ELSE IF IsGroup(d, d[n].parent) THEN ByDescription(re, d, d[n].parent, none)
    ELSE none

\* A pair of scales is written in brackets.
ScaleText(v) ==
    IF v = <<>> THEN DefaultExtrusion.scale
    ELSE IF \E k \in DOMAIN v : v[k] = "," THEN <<"[">> \o v \o <<"]">>
    ELSE v

\* The record node n inherits: the one resolved for its group, or the defaults.
Inherited(d, n) ==
    IF IsGroup(d, d[n].parent)
    THEN ObjectMergeExtrusionValues(DefaultExtrusion, d, d[n].parent)
    ELSE DefaultExtrusion

\* C21: the fields are resolved each on its own.  Scale and raise are those of
\* the last scale and raise line of the nearest description that has one (the
\* defaults when there is none), whatever the ids and the height lines are;
\* and at every node a field that no line of the node's descriptions (and,
\* for the height, no height in its id) gives keeps its inherited value.
C21_FieldsAreIndependent ==
    Resolved =>
        /\ res.extrusion.scale = ScaleText(ByDescription("RE_AUTO_SCALE_DESC", doc, res.node, <<>>))
        /\ res.extrusion.raise =
               ByDescription("RE_AUTO_RAISE_DESC", doc, res.node, DefaultExtrusion.raise)
        /\ \A n \in DOMAIN doc :
               \A e \in {Inherited(doc, n)} : \A r \in {MergeNode(e, doc[n])} :
                   /\ DescValues("RE_AUTO_SCALE_DESC", doc[n].descs, 1) = <<>>
                          => r.scale = e.scale
                   /\ DescValues("RE_AUTO_RAISE_DESC", doc[n].descs, 1) = <<>>
                          => r.raise = e.raise
                   /\ (DescValues("RE_AUTO_HEIGHT_DESC", doc[n].descs, 1) = <<>>
                          /\ IdHeights(doc[n].id) = <<>>)
                          => (r.height = e.height /\ r.neg = e.neg)

\* C21 witness: the outer group gives only a scale, the inner group only a
\* height, in its id, and the element only a raise; all three are resolved.
C21_Witness ==
    /\ Resolved
    /\ Len(doc) = 3
    /\ doc[1].id = <<>> /\ doc[1].descs = <<<<ScaleLine>>>>
    /\ doc[2].id = Id_p_10_5_mm /\ doc[2].descs = <<>>
    /\ doc[3].id = <<>> /\ doc[3].descs = <<<<RaiseLine>>>>
    /\ res.extrusion.scale = <<"[", "5", "0", ",", "6", "0", "]">>
    /\ res.extrusion.height = <<"1", "0", ".", "5">>
    /\ res.extrusion.raise = <<"2">>

(***************************************************************************)
(* Claims about the shapes and the traversal                               *)
(***************************************************************************)
\* C22: once the traversal is over, every line element has one subpath, with
\* the two vertices (x1, y1) and (x2, y2), whatever the coordinates are,
\* zero included.
C22_LineGivesItsTwoVertices ==
    pc # "traverse" =>
        \A n \in DOMAIN doc :
            doc[n].tag = "line" =>
                /\ n \in DOMAIN paths
                /\ Len(paths[n]) = 1
                /\ paths[n][1][1] = <<<<doc[n].coords[1], doc[n].coords[2]>>,
                                      <<doc[n].coords[3], doc[n].coords[4]>>>>

\* How many times getPathVertices was called for node n.
Decomposed(n) == Cardinality({k \in DOMAIN res.calls : res.calls[k] = n})

\* C23: the traversal of a drawing with use elements does not recurse
\* without end, and no element is decomposed more than once; when it has
\* returned, every path outside defs and outside a hidden part is decomposed
\* exactly once.
C23_TraversalEndsAndVisitsOnce ==
    /\ res.pc # "RuntimeError"
    /\ \A n \in DOMAIN doc : Decomposed(n) <= 1
    /\ res.pc = "returned" =>
           \A n \in DOMAIN doc :
               (doc[n].tag = "path"
                    /\ \A a \in AncestorsOrSelf(doc, n) : doc[a].tag # "defs")
                   => Decomposed(n) = 1

(***************************************************************************)
(* Claims about points on the boundary and about the containment lists     *)
(***************************************************************************)
\* p lies on the edge k of the closed polygon, an edge that is not horizontal.
OnSlantedEdgeK(p, poly, k) ==
    LET e == ClosedEdge(poly, k)
    IN  /\ e[1][2] # e[2][2]
        /\ (p[1] - e[1][1]) * (e[2][2] - e[1][2]) = (p[2] - e[1][2]) * (e[2][1] - e[1][1])
        /\ Min(e[1][1], e[2][1]) <= p[1] /\ p[1] <= Max(e[1][1], e[2][1])
        /\ Min(e[1][2], e[2][2]) <= p[2] /\ p[2] <= Max(e[1][2], e[2][2])

\* C24: a point on a vertical or slanted edge of the closed polygon is
\* classified inside, on whichever side of the polygon the edge is, without
\* a bounding box and with the polygon's own.
C24_OnEdgeIsInside ==
    PointDone =>
        \A k \in 1..Len(geo.poly) :
            OnSlantedEdgeK(geo.p, geo.poly, k)
                => (geo.nobox = "True" /\ geo.box = "True")


Members(s) == {s[k] : k \in DOMAIN s}
Recorded(path) == FindContainment(path, 1, 2, NoContainment(Len(path)))
Inside(path, a, b) ==                       \* subpath a tests as contained in subpath b
    PolyInPoly(path[a][1], path[a][2], path[b][1], path[b][2]) = "True"

\* C25: in the lists built for a converted element, each unordered pair of
\* subpaths is recorded at most once and in one direction only, j is in
\* contains[i] exactly when i is in contained_by[j], no subpath contains
\* itself, and when two subpaths each test as contained in the other the one
\* with the lower index is recorded as the container.
C25_ContainmentLists ==
    \A n \in DOMAIN doc :
        Processed(n) =>
            \A c \in {Recorded(paths[n])} :
                \A i, j \in 1..Len(paths[n]) :
                    /\ i \notin Members(c.contains[i])
                    /\ i \notin Members(c.contained_by[i])
                    /\ Cardinality({k \in DOMAIN c.contains[i] : c.contains[i][k] = j}) <= 1
                    /\ Cardinality({k \in DOMAIN c.contained_by[i] : c.contained_by[i][k] = j}) <= 1
                    /\ j \in Members(c.contains[i]) <=> i \in Members(c.contained_by[j])
                    /\ ~(j \in Members(c.contains[i]) /\ i \in Members(c.contains[j]))
                    /\ (~c.error /\ i < j /\ Inside(paths[n], i, j) /\ Inside(paths[n], j, i))
                           => j \in Members(c.contains[i])

C25_Witness ==
    /\ Processed(1)
    /\ Len(paths[1]) = 3
    /\ Inside(paths[1], 1, 2) /\ Inside(paths[1], 2, 1)
    /\ Recorded(paths[1]).contains[1] = <<2, 3>>
    /\ Recorded(paths[1]).contained_by[1] = <<>>


\* The visibility of node n where it stands in the document (0: the root).
RECURSIVE InPlaceVisibility(_, _)
InPlaceVisibility(d, n) ==
    IF n = 0 THEN "visible" ELSE Visibility(d[n], InPlaceVisibility(d, d[n].parent))

\* Node a is one the claim calls hidden: its style is display:none or its
\* effective visibility is hidden or collapse.
Hidden(d, a) ==
    \/ d[a].style = DisplayNone
    \/ InPlaceVisibility(d, a) \in {"hidden", "collapse"}

UnderHidden(d, n) == \E a \in AncestorsOrSelf(d, n) : Hidden(d, a)

\* Node n, or an element it is in, is referred to by a use element.
ReachedByUse(d, n) ==
    \E u \in DOMAIN d :
        /\ d[u].tag = "use"
        /\ \E t \in AncestorsOrSelf(d, n) : d[t].id = d[u].href

Refers(poly) ==
    IF poly = "msg_linear_extrude" THEN {"center", "points"}
    ELSE IF poly = "msg_linear_extrude_by_paths" THEN {"center", "points", "paths"}
    ELSE IF poly = "msg_extrude_by_hull" THEN {"points"}
    ELSE {"points", "paths"}

\* What was written of kind k for element n, and the ordinals there.
WrittenOf(k, n) == {w \in Written(k) : f.text[w].node = n}
Ordinals(k, n) == {f.text[w].prefix : w \in WrittenOf(k, n)}

\* C27: in the output of an emitted element with m top-level subpaths the
\* centers, the points and the sub-blocks each carry the ordinals 0..m-1 once
\* and in order; every name a sub-block uses was declared, before the module,
\* for the same subpath with the same id and ordinal; a sub-block uses a paths
\* list exactly when its subpath has nested subpaths; and all declarations of
\* the element stand before its module and the sub-blocks after it.
C27_BodyMatchesDeclarations ==
    \A n \in DOMAIN paths :
        Emitted(n) =>
            \A m \in {Cardinality({i \in 1..Len(paths[n]) : ContainedBy(paths[n], i) = {}})} :
            \A mod \in WrittenOf("module", n) :
                /\ \A k \in {"center", "points", "block"} :
                       /\ Ordinals(k, n) = 0..(m - 1)
                       /\ Cardinality(WrittenOf(k, n)) = m
                       /\ \A v, w \in WrittenOf(k, n) :
                              v < w => f.text[v].prefix < f.text[w].prefix
                /\ \A k \in {"center", "points", "paths"} : \A w \in WrittenOf(k, n) : w < mod
                /\ \A w \in WrittenOf("block", n) :
                       /\ mod < w
                       /\ \A r \in Refers(f.text[w].data) :
                              \E dcl \in WrittenOf(r, n) :
                                  /\ f.text[dcl].id = f.text[w].id
                                  /\ f.text[dcl].prefix = f.text[w].prefix
                                  /\ f.text[dcl].sub = f.text[w].sub
                                  /\ dcl < mod
                       /\ "paths" \in Refers(f.text[w].data)
                              <=> Contained(paths[n], f.text[w].sub) # {}

\* C27 witness: an element is written whose first subpath is nested in its
\* second, so that the sub-block of the second subpath has ordinal 0 and
\* uses a paths list.
C27_Witness ==
    /\ f.state = "closed"
    /\ \E w \in WrittenOf("block", 1) :
           /\ f.text[w].sub = 2 /\ f.text[w].prefix = 0
           /\ "paths" \in Refers(f.text[w].data)


\* C28: two different elements that each have a module in the output file
\* have modules of different names, and declarations of different prefixes.
C28_NamesAreDistinct ==
    \A v, w \in Written("module") \cup Written("points") :
        (f.text[v].node # f.text[w].node) => f.text[v].id # f.text[w].id

====
